---- MODULE Spec2Model ----
(***************************************************************************)
(* Trust & Claim Engine of moltyjacs (src/tools/hai.ts) and the claim-set  *)
(* operations that drive it: the tool jacs_set_verification_claim          *)
(* (src/tools/index.ts) and the CLI command `claim <level>` in its two     *)
(* revisions (src/cli.ts and the proof-carrying cli of unnamed/part_005).  *)
(***************************************************************************)
EXTENDS Integers, Sequences, FiniteSets, TLC

VARIABLES
    initialized,        \* api.runtime.jacs?.isInitialized()
    verificationClaim,  \* api.config.verificationClaim (persisted)
    agentDomain,        \* api.config.agentDomain
    agentId,            \* api.config.agentId
    publicKey,          \* the agent's public key (runtime / agent.public.pem)
    last,               \* outcome of the last claim-set attempt, with its evidence
    calls,              \* what the last attempt called: validateClaimRequirements, updateConfig
    trustEval,          \* last evaluation of determineTrustLevel
    upgradeEval,        \* last evaluation of canUpgradeClaim
    validateEval,       \* last evaluation of validateClaimRequirements
    site,               \* the last operation other than claim-set, with its evidence
    pwInput,            \* what resolvePrivateKeyPassword is called with and finds
    pwResult,           \* what resolvePrivateKeyPassword returned or threw
    pwRuns,             \* the outcomes of repeated resolutions, in order
    setup,              \* the last run of setupCommand: arguments, effects, result
    procs,              \* the claim-set operations in progress, each with its locals
    pubkeyCache,        \* pubkeyCache: lower-cased domain -> CachedKey
    now,                \* Date.now()
    pending,            \* the well-known request in flight, with its caller
    cacheOp             \* the last key fetch that returned

configVars == <<initialized, agentDomain, agentId, publicKey>>
evalVars == <<trustEval, upgradeEval, validateEval>>
otherVars == <<site, pwInput, pwResult>>
cacheVars == <<pubkeyCache, now, pending, cacheOp>>
laterVars == <<setup, procs, pubkeyCache, now, pending, cacheOp>>
moreVars == <<pwRuns, setup, procs, pubkeyCache, now, pending, cacheOp>>
vars == <<initialized, verificationClaim, agentDomain, agentId, publicKey, last,
          calls, trustEval, upgradeEval, validateEval, site, pwInput, pwResult,
          pwRuns, setup, procs, pubkeyCache, now, pending, cacheOp>>

----------------------------------------------------------------------------
(* Values *)

Undefined == "undefined"
Null == "null"

\* type VerificationClaim
VerificationClaims == {"unverified", "verified", "verified-hai.ai"}

\* type TrustLevel
TrustLevels == {"basic", "domain", "attested"}

\* what a caller can pass as the target claim: the three levels, and a string
\* that is no level
LevelInputs == VerificationClaims \cup {"bogus"}

Domains == {"agent.example"}
AgentIds == {"agent-1"}
PublicKeys == {"pemA"}
Hashes == {"hA", "hB"}

\* hashString of @hai.ai/jacs: the hash of the agent's key is hA; hB is the
\* hash of some other key
hashString(pem) == IF pem = "pemA" THEN "hA" ELSE "hB"

----------------------------------------------------------------------------
(* Trust & Claim Engine: src/tools/hai.ts *)

\* mutant: the domain branch is tested before the registry branch
determineTrustLevel_DomainFirst(hasDomain, dnsVerified, haiRegistered) ==
    IF hasDomain /\ dnsVerified THEN "domain"
    ELSE IF haiRegistered THEN "attested"
    ELSE "basic"

determineTrustLevel(hasDomain, dnsVerified, haiRegistered) ==
    IF haiRegistered THEN "attested"
    ELSE IF hasDomain /\ dnsVerified THEN "domain"
    ELSE "basic"

claimOrder == <<"unverified", "verified", "verified-hai.ai">>

\* Array.prototype.indexOf: 0-based index of the first occurrence, -1 if none
indexOf(arr, x) ==
    IF \E i \in 1..Len(arr) : arr[i] = x
    THEN (CHOOSE i \in 1..Len(arr) : arr[i] = x /\ \A j \in 1..(i - 1) : arr[j] # x) - 1
    ELSE -1

\* `x || dflt` on an optional string
orDefault(x, dflt) == IF x = Undefined \/ x = "" THEN dflt ELSE x

\* mutant: the new index is compared with 0, not with the current index
canUpgradeClaim_IgnoresCurrent(currentClaim, newClaim) ==
    indexOf(claimOrder, newClaim) >= 0

\* mutant: strict comparison of the indexes
canUpgradeClaim_Strict(currentClaim, newClaim) ==
    indexOf(claimOrder, newClaim)
        > indexOf(claimOrder, orDefault(currentClaim, "unverified"))

\* mutant: only the same level or the next one is allowed
canUpgradeClaim_OneStep(currentClaim, newClaim) ==
    LET currentIndex == indexOf(claimOrder, orDefault(currentClaim, "unverified"))
        newIndex == indexOf(claimOrder, newClaim)
    IN  newIndex >= currentIndex /\ newIndex - currentIndex <= 1

canUpgradeClaim(currentClaim, newClaim) ==
    LET currentIndex == indexOf(claimOrder, orDefault(currentClaim, "unverified"))
        newIndex == indexOf(claimOrder, newClaim)
    IN  newIndex >= currentIndex

ErrDomain == "Claim 'verified' requires jacsAgentDomain to be configured"
ErrHai == "Claim 'verified-hai.ai' requires registration with HAI.ai"

\* mutant: the domain requirement of `verified` is missing
validateClaimRequirements_NoDomainCheck(claim, hasDomain, haiRegistered) ==
    IF claim = "verified-hai.ai" /\ ~haiRegistered THEN ErrHai
    ELSE Null

\* mutant: the domain requirement is applied to every claim
validateClaimRequirements_DomainForAll(claim, hasDomain, haiRegistered) ==
    IF ~hasDomain THEN ErrDomain
    ELSE IF claim = "verified-hai.ai" /\ ~haiRegistered THEN ErrHai
    ELSE Null

\* the function as hai.ts declares it: three parameters
validateClaimRequirements(claim, hasDomain, haiRegistered) ==
    IF claim = "verified" /\ ~hasDomain THEN ErrDomain
    ELSE IF claim = "verified-hai.ai" /\ ~haiRegistered THEN ErrHai
    ELSE Null

\* the call with four arguments (claim, domainConfigured, dnsVerified,
\* haiRegistered) made by the tool and by the proof-carrying CLI: arguments bind
\* to the three declared parameters by position and the fourth is dropped
validateClaimRequirementsCall4(claim, domainConfigured, dnsVerified, haiRegistered) ==
    validateClaimRequirements(claim, domainConfigured, dnsVerified)

----------------------------------------------------------------------------
(* DNS TXT lookup: src/tools/index.ts *)

OptHash == Hashes \cup {Undefined}

\* What dns.resolveTxt gives for _v1.agent.jacs.<domain>: it throws, or the
\* joined text is empty, or it is a TXT record, held here as the key=value
\* fields parseDnsTxt reads the hash from (a field that is absent or has an
\* empty value is Undefined).
DnsAnswers ==
    [kind : {"throw", "empty"}, jac_public_key_hash : {Undefined},
     pkh : {Undefined}, publicKeyHash : {Undefined}]
    \cup
    [kind : {"txt"}, jac_public_key_hash : OptHash, pkh : OptHash,
     publicKeyHash : OptHash]

\* no lookup was made
NoDnsLookup ==
    [kind |-> "none", jac_public_key_hash |-> Undefined, pkh |-> Undefined,
     publicKeyHash |-> Undefined]

\* parseDnsTxt(txt).publicKeyHash:
\* result["jac_public_key_hash"] || result["pkh"] || result["publicKeyHash"]
parseDnsTxt(txt) ==
    [publicKeyHash |->
        IF txt.jac_public_key_hash # Undefined THEN txt.jac_public_key_hash
        ELSE IF txt.pkh # Undefined THEN txt.pkh
        ELSE txt.publicKeyHash]

\* resolveDnsRecord: null when the lookup throws or the text is empty
resolveDnsRecord(answer) ==
    IF answer.kind = "txt"
    THEN [isNull |-> FALSE, parsed |-> parseDnsTxt(answer)]
    ELSE [isNull |-> TRUE, parsed |-> [publicKeyHash |-> Undefined]]

----------------------------------------------------------------------------
(* Registry answers *)

\* getHaiClient() / haiClient.verify() of the tool and the proof-carrying CLI
HaiClientAnswers == {"no-client", "throws", "registered", "not-registered"}

\* checkHaiStatus(agentId) of src/cli.ts: null on 404, throws, or a
\* registration whose `verified` is true or false
HaiStatusAnswers == {"null", "throws", "verified", "not-verified"}

NotChecked == "not-checked"

----------------------------------------------------------------------------
(* Claim-set operations *)

ErrNotInitialized == "JACS not initialized. Run 'openclaw jacs init' first."
ErrDowngrade == "Cannot downgrade verification claim"
ErrInvalidLevel == "Invalid claim level"

NoAttempt ==
    [op |-> "none", level |-> Undefined, outcome |-> "none", error |-> Null,
     previousClaim |-> Undefined, dnsAnswer |-> NoDnsLookup,
     haiAnswer |-> NotChecked, dnsVerified |-> FALSE, haiRegistered |-> FALSE]

Attempt(op, level, outcome, error, previous, dnsAnswer, haiAnswer, dnsVerified, haiRegistered) ==
    [op |-> op, level |-> level, outcome |-> outcome, error |-> error,
     previousClaim |-> previous, dnsAnswer |-> dnsAnswer, haiAnswer |-> haiAnswer,
     dnsVerified |-> dnsVerified, haiRegistered |-> haiRegistered]

\* calls made by an attempt: how often validateClaimRequirements was
\* evaluated, and the updateConfig calls, each as the set of fields of its update
Calls(validations, updates) == [validate |-> validations, updates |-> updates]

\* publicKey ? hashString(publicKey) : undefined
publicKeyHashOf(key) == IF key # Undefined THEN hashString(key) ELSE Undefined

\* the DNS proof both newer handlers compute after resolveDnsRecord:
\* if (dnsResult) { if (publicKeyHash && dnsHash) dnsVerified = dnsHash === publicKeyHash }
dnsProof(dnsAnswer, publicKeyHash) ==
    LET dnsResult == resolveDnsRecord(dnsAnswer)
        dnsHash == dnsResult.parsed.publicKeyHash
    IN  /\ dnsAnswer.kind # "none"
        /\ ~dnsResult.isNull
        /\ publicKeyHash # Undefined
        /\ dnsHash # Undefined
        /\ dnsHash = publicKeyHash

\* api.updateConfig({ verificationClaim: claim })
updateConfig(claim) == verificationClaim' = claim

\* mutant: the tool writes the claim right after the downgrade check and
\* validates the requirements afterwards
jacs_set_verification_claim_UpdateFirst(claim) ==
    LET currentClaim == orDefault(verificationClaim, "unverified")
        publicKeyHash == publicKeyHashOf(publicKey)
    IN
    IF ~initialized
    THEN /\ last' = Attempt("tool", claim, "not-initialized",
                            ErrNotInitialized, verificationClaim,
                            NoDnsLookup, NotChecked, FALSE, FALSE)
         /\ calls' = Calls(0, <<>>)
         /\ UNCHANGED verificationClaim
    ELSE IF ~canUpgradeClaim(currentClaim, claim)
    THEN /\ last' = Attempt("tool", claim, "downgrade",
                            ErrDowngrade, verificationClaim,
                            NoDnsLookup, NotChecked, FALSE, FALSE)
         /\ calls' = Calls(0, <<>>)
         /\ UNCHANGED verificationClaim
    ELSE \E dnsAnswer \in (IF agentDomain # Undefined THEN DnsAnswers ELSE {NoDnsLookup}) :
         \E haiAnswer \in (IF agentId # Undefined /\ claim = "verified-hai.ai"
                           THEN HaiClientAnswers ELSE {NotChecked}) :
            LET dnsVerified == dnsProof(dnsAnswer, publicKeyHash)
                haiRegistered == haiAnswer = "registered"
                validationError ==
                    validateClaimRequirementsCall4(claim, agentDomain # Undefined,
                                                   dnsVerified, haiRegistered)
            IN  /\ updateConfig(claim)
                /\ calls' = Calls(1, <<{"verificationClaim"}>>)
                /\ last' = Attempt("tool", claim,
                                   IF validationError # Null THEN "unmet" ELSE "updated",
                                   validationError, verificationClaim, dnsAnswer,
                                   haiAnswer, dnsVerified, haiRegistered)

\* tool jacs_set_verification_claim (src/tools/index.ts)
jacs_set_verification_claim(claim) ==
    LET currentClaim == orDefault(verificationClaim, "unverified")
        publicKeyHash == publicKeyHashOf(publicKey)
    IN
    IF ~initialized
    THEN /\ last' = Attempt("tool", claim, "not-initialized",
                            ErrNotInitialized, verificationClaim,
                            NoDnsLookup, NotChecked, FALSE, FALSE)
         /\ calls' = Calls(0, <<>>)
         /\ UNCHANGED verificationClaim
    ELSE IF ~canUpgradeClaim(currentClaim, claim)
    THEN /\ last' = Attempt("tool", claim, "downgrade",
                            ErrDowngrade, verificationClaim,
                            NoDnsLookup, NotChecked, FALSE, FALSE)
         /\ calls' = Calls(0, <<>>)
         /\ UNCHANGED verificationClaim
    ELSE \E dnsAnswer \in (IF agentDomain # Undefined THEN DnsAnswers ELSE {NoDnsLookup}) :
         \E haiAnswer \in (IF agentId # Undefined /\ claim = "verified-hai.ai"
                           THEN HaiClientAnswers ELSE {NotChecked}) :
            LET dnsVerified == dnsProof(dnsAnswer, publicKeyHash)
                haiRegistered == haiAnswer = "registered"
                domainConfigured == agentDomain # Undefined
                validationError ==
                    validateClaimRequirementsCall4(claim, domainConfigured,
                                                   dnsVerified, haiRegistered)
            IN  IF validationError # Null
                THEN /\ last' = Attempt("tool", claim, "unmet", validationError,
                                        verificationClaim, dnsAnswer, haiAnswer,
                                        dnsVerified, haiRegistered)
                     /\ calls' = Calls(1, <<>>)
                     /\ UNCHANGED verificationClaim
                ELSE /\ updateConfig(claim)
                     /\ last' = Attempt("tool", claim, "updated", Null,
                                        verificationClaim, dnsAnswer, haiAnswer,
                                        dnsVerified, haiRegistered)
                     /\ calls' = Calls(1, <<{"verificationClaim"}>>)

ToolSetClaim ==
    /\ \E claim \in LevelInputs : jacs_set_verification_claim(claim)
    /\ UNCHANGED <<configVars, evalVars, otherVars, moreVars>>

validLevels == <<"unverified", "verified", "verified-hai.ai">>

\* validLevels.includes(level)
includes(arr, x) == \E i \in 1..Len(arr) : arr[i] = x

\* CLI `claim [level]` of src/cli.ts: no DNS lookup; the registry is asked
\* through checkHaiStatus; validateClaimRequirements is called with the three
\* arguments (newClaim, !!config.agentDomain, haiRegistered)
cliClaim(level) ==
    LET currentClaim == orDefault(verificationClaim, "unverified")
        publicKeyHash == publicKeyHashOf(publicKey)
    IN
    IF ~initialized
    THEN /\ last' = Attempt("cli", level, "not-initialized",
                            ErrNotInitialized, verificationClaim,
                            NoDnsLookup, NotChecked, FALSE, FALSE)
         /\ calls' = Calls(0, <<>>)
         /\ UNCHANGED verificationClaim
    ELSE IF level = Undefined
    THEN /\ last' = Attempt("cli", level, "show", Null, verificationClaim,
                            NoDnsLookup, NotChecked, FALSE, FALSE)
         /\ calls' = Calls(0, <<>>)
         /\ UNCHANGED verificationClaim
    ELSE IF ~includes(validLevels, level)
    THEN /\ last' = Attempt("cli", level, "invalid-level", ErrInvalidLevel,
                            verificationClaim, NoDnsLookup, NotChecked, FALSE, FALSE)
         /\ calls' = Calls(0, <<>>)
         /\ UNCHANGED verificationClaim
    ELSE IF ~canUpgradeClaim(currentClaim, level)
    THEN /\ last' = Attempt("cli", level, "downgrade", ErrDowngrade,
                            verificationClaim, NoDnsLookup, NotChecked, FALSE, FALSE)
         /\ calls' = Calls(0, <<>>)
         /\ UNCHANGED verificationClaim
    ELSE \E haiAnswer \in (IF level = "verified-hai.ai" /\ agentId # Undefined
                              /\ publicKeyHash # Undefined
                           THEN HaiStatusAnswers ELSE {NotChecked}) :
            LET haiRegistered == haiAnswer = "verified"
                validationError ==
                    validateClaimRequirements(level, agentDomain # Undefined,
                                              haiRegistered)
            IN  IF validationError # Null
                THEN /\ last' = Attempt("cli", level, "unmet", validationError,
                                        verificationClaim, NoDnsLookup, haiAnswer,
                                        FALSE, haiRegistered)
                     /\ calls' = Calls(1, <<>>)
                     /\ UNCHANGED verificationClaim
                ELSE /\ updateConfig(level)
                     /\ last' = Attempt("cli", level, "updated", Null,
                                        verificationClaim, NoDnsLookup, haiAnswer,
                                        FALSE, haiRegistered)
                     /\ calls' = Calls(1, <<{"verificationClaim"}>>)

CliClaim ==
    /\ \E level \in LevelInputs \cup {Undefined} : cliClaim(level)
    /\ UNCHANGED <<configVars, evalVars, otherVars, moreVars>>

\* CLI `claim [level]` of unnamed/part_005: gathers the DNS and registry proof
\* first, then shows / validates the level / rejects a downgrade / validates the
\* requirements with the four-argument call
cliClaimProof(level) ==
    LET currentClaim == orDefault(verificationClaim, "unverified")
        publicKeyHash == publicKeyHashOf(publicKey)
        targetClaim == orDefault(level, currentClaim)
    IN
    IF ~initialized
    THEN /\ last' = Attempt("cliProof", level, "not-initialized",
                            ErrNotInitialized, verificationClaim,
                            NoDnsLookup, NotChecked, FALSE, FALSE)
         /\ calls' = Calls(0, <<>>)
         /\ UNCHANGED verificationClaim
    ELSE \E dnsAnswer \in (IF agentDomain # Undefined THEN DnsAnswers ELSE {NoDnsLookup}) :
         \E haiAnswer \in (IF agentId # Undefined /\ targetClaim = "verified-hai.ai"
                           THEN HaiClientAnswers ELSE {NotChecked}) :
            LET dnsVerified == dnsProof(dnsAnswer, publicKeyHash)
                haiRegistered == haiAnswer = "registered"
                domainConfigured == agentDomain # Undefined
            IN
            IF level = Undefined
            THEN /\ last' = Attempt("cliProof", level, "show", Null, verificationClaim,
                                    dnsAnswer, haiAnswer, dnsVerified, haiRegistered)
                 /\ calls' = Calls(0, <<>>)
                 /\ UNCHANGED verificationClaim
            ELSE IF ~includes(validLevels, level)
            THEN /\ last' = Attempt("cliProof", level, "invalid-level",
                                    ErrInvalidLevel, verificationClaim,
                                    dnsAnswer, haiAnswer, dnsVerified, haiRegistered)
                 /\ calls' = Calls(0, <<>>)
                 /\ UNCHANGED verificationClaim
            ELSE IF ~canUpgradeClaim(currentClaim, level)
            THEN /\ last' = Attempt("cliProof", level, "downgrade",
                                    ErrDowngrade, verificationClaim,
                                    dnsAnswer, haiAnswer, dnsVerified, haiRegistered)
                 /\ calls' = Calls(0, <<>>)
                 /\ UNCHANGED verificationClaim
            ELSE LET validationError ==
                         validateClaimRequirementsCall4(level, domainConfigured,
                                                        dnsVerified, haiRegistered)
                 IN  IF validationError # Null
                     THEN /\ last' = Attempt("cliProof", level, "unmet", validationError,
                                             verificationClaim, dnsAnswer, haiAnswer,
                                             dnsVerified, haiRegistered)
                          /\ calls' = Calls(1, <<>>)
                          /\ UNCHANGED verificationClaim
                     ELSE /\ updateConfig(level)
                          /\ last' = Attempt("cliProof", level, "updated", Null,
                                             verificationClaim, dnsAnswer, haiAnswer,
                                             dnsVerified, haiRegistered)
                          /\ calls' = Calls(1, <<{"verificationClaim"}>>)

CliClaimProof ==
    /\ \E level \in LevelInputs \cup {Undefined} : cliClaimProof(level)
    /\ UNCHANGED <<configVars, evalVars, otherVars, moreVars>>

----------------------------------------------------------------------------
(* Operations other than claim-set: registration, and the operations that  *)
(* gather evidence for determineTrustLevel                                  *)

\* fetchPublicKey(domain): { error } or { data: { key, publicKeyHash?, agentId? } }
KeyAnswers ==
    [kind : {"error"}, key : {Undefined}, publicKeyHash : {Undefined},
     agentId : {Undefined}]
    \cup
    [kind : {"data"}, key : PublicKeys, publicKeyHash : OptHash,
     agentId : AgentIds \cup {Undefined}]

\* no key was fetched
NoKeyFetch ==
    [kind |-> "none", key |-> Undefined, publicKeyHash |-> Undefined,
     agentId |-> Undefined]

\* parseDnsTxt(txt).jacsAgentId of a TXT record: its jacs_agent_id field
TxtAgentIds == AgentIds \cup {Undefined}

\* the jacs_agent_id values a DNS answer can carry
txtAgentIdsOf(dnsAnswer) == IF dnsAnswer.kind = "txt" THEN TxtAgentIds ELSE {Undefined}

\* verifyHaiRegistration(agentId, publicKeyHash) of src/cli.ts: throws (404,
\* API error, timeout, hash mismatch) or a registration with `verified`
HaiVerifyAnswers == {"throws", "verified", "not-verified"}

NoRequest ==
    [target |-> "self", verifyDns |-> FALSE, requiredTrustLevel |-> Undefined,
     sigAgentId |-> Undefined]

NoSite ==
    [op |-> "none", outcome |-> "none", request |-> NoRequest,
     previousClaim |-> Undefined, keyAnswer |-> NoKeyFetch,
     dnsAnswer |-> NoDnsLookup, txtAgentId |-> Undefined, haiAnswer |-> NotChecked,
     dnsVerified |-> FALSE, dnsError |-> Undefined, haiRegistered |-> FALSE,
     trustLevel |-> "none", verifyAnswer |-> NotChecked, valid |-> FALSE]

\* an operation that returned before it gathered any evidence
SiteReturn(op, outcome, request, keyAnswer, haiAnswer) ==
    [NoSite EXCEPT !.op = op, !.outcome = outcome, !.request = request,
                   !.previousClaim = verificationClaim, !.keyAnswer = keyAnswer,
                   !.haiAnswer = haiAnswer]

\* an operation that reported a trust level from the evidence it gathered
SiteReport(op, request, keyAnswer, dnsAnswer, txtAgentId, haiAnswer, dnsVerified, dnsError, haiRegistered, trustLevel) ==
    [op |-> op, outcome |-> "reported", request |-> request,
     previousClaim |-> verificationClaim, keyAnswer |-> keyAnswer,
     dnsAnswer |-> dnsAnswer, txtAgentId |-> txtAgentId, haiAnswer |-> haiAnswer,
     dnsVerified |-> dnsVerified, dnsError |-> dnsError,
     haiRegistered |-> haiRegistered, trustLevel |-> trustLevel,
     verifyAnswer |-> NotChecked, valid |-> FALSE]

RequestFor(target) == [NoRequest EXCEPT !.target = target]

\* mutant: the own-agent DNS check compares the hashes even when the agent
\* has no public key
selfDnsVerified_NoKeyCheck(dnsAnswer, publicKeyHash) ==
    LET dnsResult == resolveDnsRecord(dnsAnswer)
    IN  /\ dnsAnswer.kind # "none"
        /\ dnsResult.parsed.publicKeyHash = publicKeyHash

\* the own-agent DNS check of jacs_identity, jacs_get_attestation and the CLI:
\* if (dnsResult && publicKeyHash) dnsVerified = dnsResult.parsed.publicKeyHash === publicKeyHash
selfDnsVerified(dnsAnswer, publicKeyHash) ==
    LET dnsResult == resolveDnsRecord(dnsAnswer)
    IN  /\ dnsAnswer.kind # "none"
        /\ ~dnsResult.isNull
        /\ publicKeyHash # Undefined
        /\ dnsResult.parsed.publicKeyHash = publicKeyHash

\* the DNS check on a fetched key:
\* if (dnsResult) dnsVerified = dnsResult.parsed.publicKeyHash === publicKeyHash
externalDnsVerified(dnsAnswer, publicKeyHash) ==
    LET dnsResult == resolveDnsRecord(dnsAnswer)
    IN  /\ ~dnsResult.isNull
        /\ dnsResult.parsed.publicKeyHash = publicKeyHash

\* keyResult.data.publicKeyHash || hashString(keyResult.data.key)
fetchedKeyHash(keyAnswer) == orDefault(keyAnswer.publicKeyHash, hashString(keyAnswer.key))

\* the lookups an own-agent operation makes: DNS only with a configured domain
selfDnsAnswers == IF agentDomain # Undefined THEN DnsAnswers ELSE {NoDnsLookup}

\* tool jacs_identity (src/tools/index.ts)
jacs_identity ==
    IF ~initialized
    THEN site' = SiteReturn("jacs_identity", "error", NoRequest, NoKeyFetch, NotChecked)
    ELSE \E haiAnswer \in (IF agentId # Undefined THEN HaiClientAnswers
                           ELSE {NotChecked}) :
         \E dnsAnswer \in selfDnsAnswers :
            LET publicKeyHash == publicKeyHashOf(publicKey)
                haiRegistered == haiAnswer = "registered"
                dnsVerified == selfDnsVerified(dnsAnswer, publicKeyHash)
            IN  site' = SiteReport("jacs_identity", NoRequest, NoKeyFetch, dnsAnswer,
                                   Undefined, haiAnswer, dnsVerified, Undefined,
                                   haiRegistered,
                                   determineTrustLevel(agentDomain # Undefined,
                                                       dnsVerified, haiRegistered))

Identity ==
    /\ jacs_identity
    /\ UNCHANGED <<configVars, verificationClaim, last, calls, evalVars, pwInput,
                   pwResult, moreVars>>

\* what a call on an obtained HaiClient gives: it throws, or a result whose
\* `registered` is true or not
HaiCallAnswers == {"throws", "registered", "not-registered"}

\* tool jacs_get_attestation (src/tools/index.ts): the client is obtained
\* before any branch, outside every try block
jacs_get_attestation(target) ==
    \E client \in {"throws", "no-client", "client"} :
    LET request == RequestFor(target)
        op == "jacs_get_attestation"
        \* the registry is asked only through an obtained client
        haiAnswers(asked) ==
            IF client = "client" /\ asked THEN HaiCallAnswers
            ELSE IF client = "no-client" THEN {"no-client"} ELSE {NotChecked}
    IN
    IF client = "throws"
    THEN site' = SiteReturn(op, "error", request, NoKeyFetch, "throws")
    ELSE IF target = "self"
    THEN IF ~initialized
         THEN site' = SiteReturn(op, "error", request, NoKeyFetch, NotChecked)
         ELSE \E haiAnswer \in haiAnswers(agentId # Undefined) :
              \E dnsAnswer \in selfDnsAnswers :
                 LET publicKeyHash == publicKeyHashOf(publicKey)
                     haiRegistered == haiAnswer = "registered"
                     dnsVerified == selfDnsVerified(dnsAnswer, publicKeyHash)
                 IN  site' = SiteReport(op, request, NoKeyFetch, dnsAnswer, Undefined,
                                        haiAnswer, dnsVerified, Undefined, haiRegistered,
                                        determineTrustLevel(agentDomain # Undefined,
                                                            dnsVerified, haiRegistered))
    ELSE IF target = "domain"
    THEN \E keyAnswer \in KeyAnswers, dnsAnswer \in DnsAnswers :
         \E txtAgentId \in txtAgentIdsOf(dnsAnswer) :
            LET externalId == orDefault(keyAnswer.agentId, txtAgentId)
            IN
            IF keyAnswer.kind = "error" \/ externalId = Undefined
            THEN site' = SiteReturn(op, "error", request, keyAnswer, NotChecked)
            ELSE \E haiAnswer \in haiAnswers(TRUE) :
                    LET publicKeyHash == fetchedKeyHash(keyAnswer)
                        dnsVerified == externalDnsVerified(dnsAnswer, publicKeyHash)
                        haiRegistered == haiAnswer = "registered"
                    IN  site' = SiteReport(op, request, keyAnswer, dnsAnswer, txtAgentId,
                                           haiAnswer, dnsVerified, Undefined,
                                           haiRegistered,
                                           determineTrustLevel(TRUE, dnsVerified,
                                                               haiRegistered))
    ELSE \* by agent ID only
         \E haiAnswer \in haiAnswers(TRUE) :
            IF haiAnswer \in {"no-client", "throws"}
            THEN site' = SiteReturn(op, "error", request, NoKeyFetch, haiAnswer)
            ELSE LET haiRegistered == haiAnswer = "registered"
                 IN  site' = SiteReport(op, request, NoKeyFetch, NoDnsLookup, Undefined,
                                        haiAnswer, FALSE, Undefined, haiRegistered,
                                        IF haiRegistered THEN "attested" ELSE "basic")

GetAttestation ==
    /\ \E target \in {"self", "domain", "agentId"} : jacs_get_attestation(target)
    /\ UNCHANGED <<configVars, verificationClaim, last, calls, evalVars, pwInput,
                   pwResult, moreVars>>

\* tool jacs_lookup_agent (src/tools/index.ts)
jacs_lookup_agent ==
    \E keyAnswer \in KeyAnswers, dnsAnswer \in DnsAnswers :
    \E txtAgentId \in txtAgentIdsOf(dnsAnswer) :
       LET dnsResult == resolveDnsRecord(dnsAnswer)
           wellKnownOk == keyAnswer.kind = "data"
           \* localHash === dnsHash, only with a DNS record and a well-known key
           dnsVerified == /\ ~dnsResult.isNull
                          /\ wellKnownOk
                          /\ fetchedKeyHash(keyAnswer) = dnsResult.parsed.publicKeyHash
           \* result.wellKnown?.agentId || dnsResult?.parsed.jacsAgentId
           lookupId == orDefault(keyAnswer.agentId, txtAgentId)
       IN  \E haiAnswer \in (IF lookupId # Undefined THEN HaiClientAnswers
                             ELSE {NotChecked}) :
              LET haiRegistered == haiAnswer = "registered"
              IN  site' = SiteReport("jacs_lookup_agent", RequestFor("domain"),
                                     keyAnswer, dnsAnswer, txtAgentId, haiAnswer,
                                     dnsVerified, Undefined, haiRegistered,
                                     determineTrustLevel(TRUE, dnsVerified,
                                                         haiRegistered))

LookupAgent ==
    /\ jacs_lookup_agent
    /\ UNCHANGED <<configVars, verificationClaim, last, calls, evalVars, pwInput,
                   pwResult, moreVars>>

\* the documents jacs_verify_auto is given: without a signature, without a
\* signer domain (no `domain` parameter either), with a signature object that
\* holds no signature value, or signed
VerifyDocuments == {"no-signature", "no-domain", "no-signature-value", "signed"}

\* sig.agentID of the document
SignerIds == AgentIds \cup {"agent-2"}

\* verifyString(keyInfo.key, dataToVerify, signatureValue)
VerifyAnswers == {"throws", "valid", "invalid"}

trustOrder == <<"basic", "domain", "attested">>

ErrDnsMismatch == "DNS public key hash does not match fetched key"
ErrDnsAgentId == "DNS agent ID does not match document signer"
ErrDnsNotFound == "DNS TXT record not found"

\* tool jacs_verify_auto (src/tools/index.ts)
jacs_verify_auto ==
    \E document \in VerifyDocuments :
    IF document \in {"no-signature", "no-domain"}
    THEN site' = SiteReturn("jacs_verify_auto", "error", RequestFor("domain"),
                            NoKeyFetch, NotChecked)
    ELSE
    \E verifyDns \in BOOLEAN, requiredTrustLevel \in TrustLevels \cup {Undefined},
       sigAgentId \in SignerIds \cup {Undefined}, keyAnswer \in KeyAnswers :
    LET request == [target |-> "domain", verifyDns |-> verifyDns,
                    requiredTrustLevel |-> requiredTrustLevel,
                    sigAgentId |-> sigAgentId]
        op == "jacs_verify_auto"
    IN
    \* the DNS lookup made before the missing signature value is noticed
    \* changes nothing that is returned
    IF keyAnswer.kind = "error" \/ document = "no-signature-value"
    THEN site' = SiteReturn(op, "error", request, keyAnswer, NotChecked)
    ELSE
    \E dnsAnswer \in (IF verifyDns \/ requiredTrustLevel = "domain"
                      THEN DnsAnswers ELSE {NoDnsLookup}) :
    \* jacsAgentId of the record is read only in the lookup verifyDns asks for
    \E txtAgentId \in (IF verifyDns THEN txtAgentIdsOf(dnsAnswer) ELSE {Undefined}),
       verifyAnswer \in VerifyAnswers :
    LET dnsResult == resolveDnsRecord(dnsAnswer)
        dnsHash == dnsResult.parsed.publicKeyHash
        localHash == hashString(keyAnswer.key)
        looked == dnsAnswer.kind # "none"
        \* if (dnsHash === localHash || dnsHash === keyInfo.publicKeyHash)
        dnsVerified == /\ looked
                       /\ ~dnsResult.isNull
                       /\ (dnsHash = localHash \/ dnsHash = keyAnswer.publicKeyHash)
        \* the agent ID is compared only in the lookup that verifyDns asks for
        idMismatch == /\ verifyDns
                      /\ ~dnsResult.isNull
                      /\ txtAgentId # Undefined
                      /\ sigAgentId # Undefined
                      /\ txtAgentId # sigAgentId
        dnsError == IF ~looked THEN Undefined
                    ELSE IF dnsResult.isNull THEN ErrDnsNotFound
                    ELSE IF idMismatch THEN ErrDnsAgentId
                    ELSE IF ~dnsVerified THEN ErrDnsMismatch
                    ELSE Undefined
        signerId == orDefault(sigAgentId, keyAnswer.agentId)
    IN
    IF verifyAnswer = "throws"
    THEN site' = [SiteReturn(op, "error", request, keyAnswer, NotChecked)
                    EXCEPT !.verifyAnswer = verifyAnswer]
    ELSE
    \E haiAnswer \in (IF requiredTrustLevel = "attested" /\ signerId # Undefined
                      THEN HaiClientAnswers ELSE {NotChecked}) :
    LET haiRegistered == haiAnswer = "registered"
        trustLevel == determineTrustLevel(TRUE, dnsVerified, haiRegistered)
        requiredIndex == indexOf(trustOrder, orDefault(requiredTrustLevel, "basic"))
        actualIndex == indexOf(trustOrder, trustLevel)
        trustLevelMet == actualIndex >= requiredIndex
        report == SiteReport(op, request, keyAnswer, dnsAnswer, txtAgentId, haiAnswer,
                             dnsVerified, dnsError, haiRegistered, trustLevel)
    IN
    IF requiredTrustLevel # Undefined /\ ~trustLevelMet
    THEN site' = [report EXCEPT !.outcome = "unmet", !.verifyAnswer = verifyAnswer]
    ELSE site' = [report EXCEPT !.verifyAnswer = verifyAnswer,
                                !.valid = (verifyAnswer = "valid" /\ trustLevelMet)]

VerifyAuto ==
    /\ jacs_verify_auto
    /\ UNCHANGED <<configVars, verificationClaim, last, calls, evalVars, pwInput,
                   pwResult, moreVars>>

\* CLI `attestation [domain]` of src/cli.ts: the registry is asked through
\* checkHaiStatus (own agent) and verifyHaiRegistration (another agent)
cliAttestation(target) ==
    LET request == RequestFor(target)
        op == "cliAttestation"
    IN
    IF target = "self"
    THEN IF ~initialized
         THEN site' = SiteReturn(op, "error", request, NoKeyFetch, NotChecked)
         ELSE LET publicKeyHash == publicKeyHashOf(publicKey) IN
              \E dnsAnswer \in selfDnsAnswers :
              \E haiAnswer \in (IF agentId # Undefined /\ publicKeyHash # Undefined
                                THEN HaiStatusAnswers ELSE {NotChecked}) :
                 LET dnsVerified == selfDnsVerified(dnsAnswer, publicKeyHash)
                     \* haiStatus?.verified ?? false
                     haiRegistered == haiAnswer = "verified"
                 IN  site' = SiteReport(op, request, NoKeyFetch, dnsAnswer, Undefined,
                                        haiAnswer, dnsVerified, Undefined, haiRegistered,
                                        determineTrustLevel(agentDomain # Undefined,
                                                            dnsVerified, haiRegistered))
    ELSE \E keyAnswer \in KeyAnswers :
         IF keyAnswer.kind = "error"
         THEN site' = SiteReturn(op, "error", request, keyAnswer, NotChecked)
         ELSE \E dnsAnswer \in DnsAnswers :
              \E haiAnswer \in (IF keyAnswer.agentId # Undefined THEN HaiVerifyAnswers
                                ELSE {NotChecked}) :
                 LET publicKeyHash == fetchedKeyHash(keyAnswer)
                     dnsVerified == externalDnsVerified(dnsAnswer, publicKeyHash)
                     haiRegistered == haiAnswer = "verified"
                 IN  site' = SiteReport(op, request, keyAnswer, dnsAnswer, Undefined,
                                        haiAnswer, dnsVerified, Undefined, haiRegistered,
                                        determineTrustLevel(TRUE, dnsVerified,
                                                            haiRegistered))

CliAttestation ==
    /\ \E target \in {"self", "domain"} : cliAttestation(target)
    /\ UNCHANGED <<configVars, verificationClaim, last, calls, evalVars, pwInput,
                   pwResult, moreVars>>

\* CLI `attestation [domain]` of the newer cli: the registry is asked through
\* the HaiClient
cliAttestationHaiClient(target) ==
    LET request == RequestFor(target)
        op == "cliAttestationHaiClient"
    IN
    IF target = "self"
    THEN IF ~initialized
         THEN site' = SiteReturn(op, "error", request, NoKeyFetch, NotChecked)
         ELSE LET publicKeyHash == publicKeyHashOf(publicKey) IN
              \E dnsAnswer \in selfDnsAnswers :
              \E haiAnswer \in (IF agentId # Undefined THEN HaiClientAnswers
                                ELSE {NotChecked}) :
                 LET dnsVerified == selfDnsVerified(dnsAnswer, publicKeyHash)
                     \* haiStatus?.registered ?? false
                     haiRegistered == haiAnswer = "registered"
                 IN  site' = SiteReport(op, request, NoKeyFetch, dnsAnswer, Undefined,
                                        haiAnswer, dnsVerified, Undefined, haiRegistered,
                                        determineTrustLevel(agentDomain # Undefined,
                                                            dnsVerified, haiRegistered))
    ELSE \E keyAnswer \in KeyAnswers :
         IF keyAnswer.kind = "error"
         THEN site' = SiteReturn(op, "error", request, keyAnswer, NotChecked)
         ELSE \E dnsAnswer \in DnsAnswers :
              \E haiAnswer \in (IF keyAnswer.agentId # Undefined THEN HaiClientAnswers
                                ELSE {NotChecked}) :
                 LET publicKeyHash == fetchedKeyHash(keyAnswer)
                     dnsVerified == externalDnsVerified(dnsAnswer, publicKeyHash)
                     haiRegistered == haiAnswer = "registered"
                 IN  site' = SiteReport(op, request, keyAnswer, dnsAnswer, Undefined,
                                        haiAnswer, dnsVerified, Undefined, haiRegistered,
                                        determineTrustLevel(TRUE, dnsVerified,
                                                            haiRegistered))

CliAttestationHaiClient ==
    /\ \E target \in {"self", "domain"} : cliAttestationHaiClient(target)
    /\ UNCHANGED <<configVars, verificationClaim, last, calls, evalVars, pwInput,
                   pwResult, moreVars>>

\* what the registration call gives: registerWithHai of src/cli.ts throws or
\* returns a registration with `verified`; haiClient.register of the newer
\* cli throws or returns, when a client is available
RegisterAnswers == {"throws", "verified", "not-verified"}
RegisterClientAnswers == {"no-client", "throws", "registered"}

\* mutant: the preview writes the claim as the registration does
cliRegister_PreviewWrites(preview, apiKey) ==
    LET op == "cliRegister" IN
    IF ~initialized
    THEN /\ site' = SiteReturn(op, "error", NoRequest, NoKeyFetch, NotChecked)
         /\ UNCHANGED verificationClaim
    ELSE IF publicKey = Undefined \/ agentId = Undefined
    THEN /\ site' = SiteReturn(op, "error", NoRequest, NoKeyFetch, NotChecked)
         /\ UNCHANGED verificationClaim
    ELSE IF preview
    THEN /\ site' = SiteReturn(op, "preview", NoRequest, NoKeyFetch, NotChecked)
         /\ updateConfig("verified-hai.ai")
    ELSE IF ~apiKey
    THEN /\ site' = SiteReturn(op, "error", NoRequest, NoKeyFetch, NotChecked)
         /\ UNCHANGED verificationClaim
    ELSE \E haiAnswer \in RegisterAnswers :
            IF haiAnswer = "throws"
            THEN /\ site' = SiteReturn(op, "failed", NoRequest, NoKeyFetch, haiAnswer)
                 /\ UNCHANGED verificationClaim
            ELSE /\ updateConfig("verified-hai.ai")
                 /\ site' = SiteReturn(op, "registered", NoRequest, NoKeyFetch,
                                       haiAnswer)

\* CLI `register [--api-key <key>] [--preview]` of src/cli.ts
cliRegister(preview, apiKey) ==
    LET op == "cliRegister" IN
    IF ~initialized
    THEN /\ site' = SiteReturn(op, "error", NoRequest, NoKeyFetch, NotChecked)
         /\ UNCHANGED verificationClaim
    ELSE IF publicKey = Undefined \/ agentId = Undefined
    THEN /\ site' = SiteReturn(op, "error", NoRequest, NoKeyFetch, NotChecked)
         /\ UNCHANGED verificationClaim
    ELSE IF preview
    THEN /\ site' = SiteReturn(op, "preview", NoRequest, NoKeyFetch, NotChecked)
         /\ UNCHANGED verificationClaim
    ELSE IF ~apiKey
    THEN /\ site' = SiteReturn(op, "error", NoRequest, NoKeyFetch, NotChecked)
         /\ UNCHANGED verificationClaim
    ELSE \E haiAnswer \in RegisterAnswers :
            IF haiAnswer = "throws"
            THEN /\ site' = SiteReturn(op, "failed", NoRequest, NoKeyFetch, haiAnswer)
                 /\ UNCHANGED verificationClaim
            ELSE /\ updateConfig("verified-hai.ai")
                 /\ site' = SiteReturn(op, "registered", NoRequest, NoKeyFetch,
                                       haiAnswer)

CliRegister ==
    /\ \E preview \in BOOLEAN, apiKey \in BOOLEAN : cliRegister(preview, apiKey)
    /\ UNCHANGED <<configVars, last, calls, evalVars, pwInput, pwResult, moreVars>>

\* CLI `register [--preview]` of the newer cli, through the HaiClient
cliRegisterHaiClient(preview) ==
    LET op == "cliRegisterHaiClient" IN
    IF ~initialized
    THEN /\ site' = SiteReturn(op, "error", NoRequest, NoKeyFetch, NotChecked)
         /\ UNCHANGED verificationClaim
    ELSE IF publicKey = Undefined \/ agentId = Undefined
    THEN /\ site' = SiteReturn(op, "error", NoRequest, NoKeyFetch, NotChecked)
         /\ UNCHANGED verificationClaim
    ELSE IF preview
    THEN /\ site' = SiteReturn(op, "preview", NoRequest, NoKeyFetch, NotChecked)
         /\ UNCHANGED verificationClaim
    ELSE \E haiAnswer \in RegisterClientAnswers :
            IF haiAnswer = "no-client"
            THEN /\ site' = SiteReturn(op, "error", NoRequest, NoKeyFetch, haiAnswer)
                 /\ UNCHANGED verificationClaim
            ELSE IF haiAnswer = "throws"
            THEN /\ site' = SiteReturn(op, "failed", NoRequest, NoKeyFetch, haiAnswer)
                 /\ UNCHANGED verificationClaim
            ELSE /\ updateConfig("verified-hai.ai")
                 /\ site' = SiteReturn(op, "registered", NoRequest, NoKeyFetch,
                                       haiAnswer)

CliRegisterHaiClient ==
    /\ \E preview \in BOOLEAN : cliRegisterHaiClient(preview)
    /\ UNCHANGED <<configVars, last, calls, evalVars, pwInput, pwResult, moreVars>>

\* no operation has run yet in this session
Fresh == last.op = "none" /\ site.op = "none"

----------------------------------------------------------------------------
(* Private-key password resolution: src/password.ts *)

\* strings are sequences of characters, at most MaxLen long
MaxLen == 2

PRIVATE_KEY_PASSWORD_ENV == "JACS_PRIVATE_KEY_PASSWORD"
PASSWORD_FILE_ENV == "JACS_PASSWORD_FILE"

\* an environment variable or an option that is undefined
Unset == <<Undefined>>

RECURSIVE StringsUpTo(_, _)
StringsUpTo(chars, n) ==
    IF n = 0 THEN {<<>>}
    ELSE LET shorter == StringsUpTo(chars, n - 1)
         IN  shorter \cup {Append(s, c) : s \in shorter, c \in chars}

\* values of JACS_PRIVATE_KEY_PASSWORD, contents of a password file, and paths
EnvSecrets == StringsUpTo({"e", " ", "\n"}, MaxLen)
FileContents == StringsUpTo({"f", " ", "\n", "\r"}, MaxLen)
Paths == StringsUpTo({"p", " "}, MaxLen)

\* String.prototype.trim and the whitespace it strips
isSpace(c) == c \in {" ", "\n", "\r", "\t"}

RECURSIVE trimStart(_)
trimStart(value) ==
    IF value = <<>> THEN value
    ELSE IF isSpace(Head(value)) THEN trimStart(Tail(value)) ELSE value

RECURSIVE trimEnd(_)
trimEnd(value) ==
    IF value = <<>> THEN value
    ELSE IF isSpace(value[Len(value)])
         THEN trimEnd(SubSeq(value, 1, Len(value) - 1)) ELSE value

trim(value) == trimEnd(trimStart(value))

\* mutant: only the empty string counts as blank
isWhitespaceOnly_EmptyOnly(value) == Len(value) = 0

\* value.trim().length === 0
isWhitespaceOnly(value) == Len(trim(value)) = 0

\* mutant: the content is trimmed on both sides, of every whitespace
trimTrailingNewlines_TrimsAll(value) == trim(value)

\* value.replace(/[\r\n]+$/g, "")
RECURSIVE trimTrailingNewlines(_)
trimTrailingNewlines(value) ==
    IF value = <<>> THEN value
    ELSE IF value[Len(value)] \in {"\r", "\n"}
         THEN trimTrailingNewlines(SubSeq(value, 1, Len(value) - 1)) ELSE value

\* stat.mode of a password file: 0o100600, 0o100640, 0o100604, 0o100644
FileModes == {33152, 33184, 33156, 33188}

Platforms == {"linux", "win32"}

\* what lies at the one path of the file system that exists: nothing (lstat
\* throws), a symlink, a directory, or a regular file
NoFile(kind) ==
    [path |-> <<"p">>, kind |-> kind, mode |-> 33152, readable |-> TRUE,
     content |-> <<>>]

FileStates ==
    {NoFile(kind) : kind \in {"missing", "symlink", "directory"}}
    \cup
    [path : {<<"p">>}, kind : {"file"}, mode : FileModes, readable : BOOLEAN,
     content : FileContents]

\* a few files for the runs that vary the sources instead
SampleFiles ==
    {NoFile("missing"),
     [NoFile("file") EXCEPT !.content = <<"f", "\n">>],
     [NoFile("file") EXCEPT !.content = <<"f">>, !.mode = 33188]}

\* options.requirePassword: true, false, or omitted
RequireOptions == {"true", "false", Undefined}

NoPwInput ==
    [options |-> [explicitPasswordFile |-> Unset, requirePassword |-> Undefined],
     envPassword |-> Unset, envPasswordFile |-> Unset, platform |-> "linux",
     file |-> NoFile("missing")]

NoError == [kind |-> "none", sources |-> <<>>, path |-> Unset]

NoPwResult ==
    [kind |-> "none", password |-> Unset, source |-> Undefined,
     sourceName |-> Undefined, error |-> NoError]

\* throw new Error(...): the kind of message, the sources its first line
\* names, and the path it quotes; every message ends with
\* passwordBootstrapHelp(), the same list of the three possible sources
Thrown(kind, sources, path) ==
    [NoPwResult EXCEPT !.kind = "error",
                       !.error = [kind |-> kind, sources |-> sources, path |-> path]]

Returned(password, source, sourceName) ==
    [NoPwResult EXCEPT !.kind = "password", !.password = password,
                       !.source = source, !.sourceName = sourceName]

ReturnedNull == [NoPwResult EXCEPT !.kind = "null"]

\* fs.lstatSync(trimmedPath)
lstatSync(trimmedPath) ==
    IF trimmedPath = pwInput.file.path THEN pwInput.file ELSE NoFile("missing")

\* mutant: the permission check looks at the bits of `other` only
readPasswordFile_OtherBitsOnly(filePath, sourceName) ==
    LET trimmedPath == trim(filePath)
        stat == lstatSync(trimmedPath)
        mode == stat.mode % 512
        filePassword == trimTrailingNewlines(stat.content)
    IN
    IF Len(trimmedPath) = 0
    THEN Thrown("provided-but-empty", <<sourceName>>, Unset)
    ELSE IF stat.kind = "missing"
    THEN Thrown("failed-to-read", <<sourceName>>, trimmedPath)
    ELSE IF stat.kind = "symlink"
    THEN Thrown("symlink", <<sourceName>>, trimmedPath)
    ELSE IF stat.kind # "file"
    THEN Thrown("not-a-regular-file", <<sourceName>>, trimmedPath)
    ELSE IF pwInput.platform # "win32" /\ mode % 8 # 0
    THEN Thrown("insecure-permissions", <<sourceName>>, trimmedPath)
    ELSE IF ~stat.readable
    THEN Thrown("failed-to-read", <<sourceName>>, trimmedPath)
    ELSE IF isWhitespaceOnly(filePassword)
    THEN Thrown("file-is-empty", <<sourceName>>, trimmedPath)
    ELSE Returned(filePassword, "file", sourceName)

\* mutant: a path that does not exist counts as no source at all
readPasswordFile_MissingIsUnconfigured(filePath, sourceName) ==
    LET trimmedPath == trim(filePath)
        stat == lstatSync(trimmedPath)
        \* stat.mode & 0o777
        mode == stat.mode % 512
        filePassword == trimTrailingNewlines(stat.content)
    IN
    IF Len(trimmedPath) = 0
    THEN Thrown("provided-but-empty", <<sourceName>>, Unset)
    ELSE IF stat.kind = "missing"
    THEN ReturnedNull
    ELSE IF stat.kind = "symlink"
    THEN Thrown("symlink", <<sourceName>>, trimmedPath)
    ELSE IF stat.kind # "file"
    THEN Thrown("not-a-regular-file", <<sourceName>>, trimmedPath)
    \* (mode & 0o077) !== 0
    ELSE IF pwInput.platform # "win32" /\ mode % 64 # 0
    THEN Thrown("insecure-permissions", <<sourceName>>, trimmedPath)
    ELSE IF ~stat.readable
    THEN Thrown("failed-to-read", <<sourceName>>, trimmedPath)
    ELSE IF isWhitespaceOnly(filePassword)
    THEN Thrown("file-is-empty", <<sourceName>>, trimmedPath)
    ELSE Returned(filePassword, "file", sourceName)

\* readPasswordFile(filePath, sourceName), with the source and sourceName
\* its two callers put around the string it returns
readPasswordFile(filePath, sourceName) ==
    LET trimmedPath == trim(filePath)
        stat == lstatSync(trimmedPath)
        \* stat.mode & 0o777
        mode == stat.mode % 512
        filePassword == trimTrailingNewlines(stat.content)
    IN
    IF Len(trimmedPath) = 0
    THEN Thrown("provided-but-empty", <<sourceName>>, Unset)
    ELSE IF stat.kind = "missing"
    THEN Thrown("failed-to-read", <<sourceName>>, trimmedPath)
    ELSE IF stat.kind = "symlink"
    THEN Thrown("symlink", <<sourceName>>, trimmedPath)
    ELSE IF stat.kind # "file"
    THEN Thrown("not-a-regular-file", <<sourceName>>, trimmedPath)
    \* (mode & 0o077) !== 0
    ELSE IF pwInput.platform # "win32" /\ mode % 64 # 0
    THEN Thrown("insecure-permissions", <<sourceName>>, trimmedPath)
    ELSE IF ~stat.readable
    THEN Thrown("failed-to-read", <<sourceName>>, trimmedPath)
    ELSE IF isWhitespaceOnly(filePassword)
    THEN Thrown("file-is-empty", <<sourceName>>, trimmedPath)
    ELSE Returned(filePassword, "file", sourceName)

\* mutant: the filter forgets the explicit override
configuredSources_NoExplicit(explicitPasswordFileProvided, envPassword, envPasswordFile) ==
    (IF envPassword # Unset THEN <<PRIVATE_KEY_PASSWORD_ENV>> ELSE <<>>)
    \o (IF envPasswordFile # Unset THEN <<PASSWORD_FILE_ENV>> ELSE <<>>)

\* configuredSources: the three candidates, filtered to those that are set
configuredSources(explicitPasswordFileProvided, envPassword, envPasswordFile) ==
    (IF explicitPasswordFileProvided THEN <<"--password-file">> ELSE <<>>)
    \o (IF envPassword # Unset THEN <<PRIVATE_KEY_PASSWORD_ENV>> ELSE <<>>)
    \o (IF envPasswordFile # Unset THEN <<PASSWORD_FILE_ENV>> ELSE <<>>)

\* mutant: a password is required only when the option says so
requirePasswordOf_OnlyWhenTrue(options) == options.requirePassword = "true"

\* const requirePassword = options.requirePassword !== false
requirePasswordOf(options) == options.requirePassword # "false"

\* options.explicitPasswordFile || ""
orEmpty(value) == IF value = Unset THEN <<>> ELSE value

\* mutant: the path variable's password is labelled as the override's
resolvePrivateKeyPassword_MislabelsPathEnv(options) ==
    LET requirePassword == requirePasswordOf(options)
        explicitPasswordFileProvided == options.explicitPasswordFile # Unset
        envPassword == pwInput.envPassword
        envPasswordFile == pwInput.envPasswordFile
        sources == configuredSources(explicitPasswordFileProvided, envPassword,
                                     envPasswordFile)
    IN
    IF envPassword # Unset /\ isWhitespaceOnly(envPassword)
    THEN Thrown("set-but-empty", <<PRIVATE_KEY_PASSWORD_ENV>>, Unset)
    ELSE IF envPasswordFile # Unset /\ isWhitespaceOnly(envPasswordFile)
    THEN Thrown("set-but-empty", <<PASSWORD_FILE_ENV>>, Unset)
    ELSE IF Len(sources) > 1
    THEN Thrown("multiple-sources", sources, Unset)
    ELSE IF envPassword # Unset
    THEN Returned(envPassword, "env", PRIVATE_KEY_PASSWORD_ENV)
    ELSE IF explicitPasswordFileProvided
    THEN readPasswordFile(orEmpty(options.explicitPasswordFile), "--password-file")
    ELSE IF envPasswordFile # Unset
    THEN readPasswordFile(envPasswordFile, "--password-file")
    ELSE IF ~requirePassword
    THEN ReturnedNull
    ELSE Thrown("missing", <<>>, Unset)

\* resolvePrivateKeyPassword(options)
resolvePrivateKeyPassword(options) ==
    LET requirePassword == requirePasswordOf(options)
        explicitPasswordFileProvided == options.explicitPasswordFile # Unset
        envPassword == pwInput.envPassword
        envPasswordFile == pwInput.envPasswordFile
        sources == configuredSources(explicitPasswordFileProvided, envPassword,
                                     envPasswordFile)
    IN
    IF envPassword # Unset /\ isWhitespaceOnly(envPassword)
    THEN Thrown("set-but-empty", <<PRIVATE_KEY_PASSWORD_ENV>>, Unset)
    ELSE IF envPasswordFile # Unset /\ isWhitespaceOnly(envPasswordFile)
    THEN Thrown("set-but-empty", <<PASSWORD_FILE_ENV>>, Unset)
    ELSE IF Len(sources) > 1
    THEN Thrown("multiple-sources", sources, Unset)
    \* the variable's value as it is
    ELSE IF envPassword # Unset
    THEN Returned(envPassword, "env", PRIVATE_KEY_PASSWORD_ENV)
    ELSE IF explicitPasswordFileProvided
    THEN readPasswordFile(orEmpty(options.explicitPasswordFile), "--password-file")
    ELSE IF envPasswordFile # Unset
    THEN readPasswordFile(envPasswordFile, PASSWORD_FILE_ENV)
    ELSE IF ~requirePassword
    THEN ReturnedNull
    ELSE Thrown("missing", <<>>, Unset)

ResolvePassword ==
    /\ pwResult' = resolvePrivateKeyPassword(pwInput.options)
    /\ UNCHANGED <<configVars, verificationClaim, last, calls, evalVars, site, pwInput,
                   moreVars>>


----------------------------------------------------------------------------
(* setupCommand (setup.ts, the revision of unnamed/part_008) *)

ErrLegacyPassword == "The --password option is no longer supported"
ErrMissingSource == "Missing private key password source."
ErrCreateAgent == "createAgent failed"
ErrLoadAgent == "agent.load failed"
ErrPublicKeyNotFound == "Public key not found"

\* ctx.args: whether --password / -p is given, the --password-file path,
\* and --domain
SetupArgs ==
    [password : BOOLEAN, passwordFile : {Unset, <<"p">>},
     domain : Domains \cup {Undefined}]

NoSetupArgs == [password |-> FALSE, passwordFile |-> Unset, domain |-> Undefined]

SetupError(kind) == [kind |-> kind, sources |-> <<>>, path |-> Unset]

\* configExists: jacs.config.json is on disk; directories: the four mkdirSync
\* calls ran; agentCreated: createAgent wrote keys, config and agent;
\* instance: setAgentInstance was called; configUpdated: api.updateConfig was
\* called; envAtCreate: process.env.JACS_PRIVATE_KEY_PASSWORD while
\* createAgent and load run
NoSetup ==
    [outcome |-> "none", error |-> NoError, args |-> NoSetupArgs,
     envAtStart |-> Unset, envAtCreate |-> Unset, configExists |-> FALSE,
     directories |-> FALSE, agentCreated |-> FALSE, instance |-> FALSE,
     configUpdated |-> FALSE, passwordSourceName |-> Undefined]

SetupThrown(error) ==
    [kind |-> "thrown", error |-> error, keyPassword |-> Unset,
     passwordSourceName |-> Undefined, agentDomain |-> Undefined]

SetupOptions(keyPassword, passwordSourceName, domain) ==
    [kind |-> "options", error |-> NoError, keyPassword |-> keyPassword,
     passwordSourceName |-> passwordSourceName, agentDomain |-> domain]

\* mutant: --password is ignored instead of rejected
parseSetupOptions_LegacyIgnored(args) ==
    LET resolvedPassword ==
            resolvePrivateKeyPassword([explicitPasswordFile |-> args.passwordFile,
                                       requirePassword |-> Undefined])
    IN  IF resolvedPassword.kind = "error"
        THEN SetupThrown(resolvedPassword.error)
        ELSE IF resolvedPassword.kind = "null"
        THEN SetupThrown(SetupError(ErrMissingSource))
        ELSE SetupOptions(resolvedPassword.password, resolvedPassword.sourceName,
                          args.domain)

parseSetupOptions(args) ==
    LET resolvedPassword ==
            resolvePrivateKeyPassword([explicitPasswordFile |-> args.passwordFile,
                                       requirePassword |-> Undefined])
    IN  IF args.password
        THEN SetupThrown(SetupError(ErrLegacyPassword))
        ELSE IF resolvedPassword.kind = "error"
        THEN SetupThrown(resolvedPassword.error)
        ELSE IF resolvedPassword.kind = "null"
        THEN SetupThrown(SetupError(ErrMissingSource))
        ELSE SetupOptions(resolvedPassword.password, resolvedPassword.sourceName,
                          args.domain)

CreateAnswers == {"throws", "created"}
LoadAnswers == {"throws", "loaded"}

\* the handler, from its call to its return. originalPasswordEnv is declared
\* undefined and assigned only just before createAgent; the finally block
\* runs on every path and deletes the variable when originalPasswordEnv is
\* undefined, else assigns it back
setupCommand(args, createAnswer, loadAnswer, publicKeyExists) ==
    LET options == parseSetupOptions(args)
        started == [setup EXCEPT !.args = args, !.envAtStart = pwInput.envPassword]
        reached == [started EXCEPT !.directories = TRUE,
                                   !.envAtCreate = options.keyPassword]
        created == [reached EXCEPT !.agentCreated = TRUE, !.configExists = TRUE]
        finally(originalPasswordEnv) ==
            pwInput' = [pwInput EXCEPT !.envPassword = originalPasswordEnv]
    IN
    IF options.kind = "thrown"
    THEN /\ setup' = [started EXCEPT !.outcome = "error", !.error = options.error]
         /\ finally(Unset)
         /\ UNCHANGED <<agentId, agentDomain>>
    ELSE IF setup.configExists
    THEN /\ setup' = [started EXCEPT !.outcome = "already"]
         /\ finally(Unset)
         /\ UNCHANGED <<agentId, agentDomain>>
    ELSE IF createAnswer = "throws"
    THEN /\ setup' = [reached EXCEPT !.outcome = "error",
                                     !.error = SetupError(ErrCreateAgent)]
         /\ finally(pwInput.envPassword)
         /\ UNCHANGED <<agentId, agentDomain>>
    ELSE IF loadAnswer = "throws"
    THEN /\ setup' = [created EXCEPT !.outcome = "error",
                                     !.error = SetupError(ErrLoadAgent)]
         /\ finally(pwInput.envPassword)
         /\ UNCHANGED <<agentId, agentDomain>>
    ELSE IF ~publicKeyExists
    THEN /\ setup' = [created EXCEPT !.outcome = "error",
                                     !.error = SetupError(ErrPublicKeyNotFound)]
         /\ finally(pwInput.envPassword)
         /\ UNCHANGED <<agentId, agentDomain>>
    ELSE /\ setup' = [created EXCEPT !.outcome = "initialized",
                                     !.instance = TRUE, !.configUpdated = TRUE,
                                     !.passwordSourceName = options.passwordSourceName]
         /\ agentId' = "agent-1"
         /\ agentDomain' = options.agentDomain
         /\ finally(pwInput.envPassword)

SetupCommand ==
    /\ setup.outcome = "none"
    /\ \E args \in SetupArgs, createAnswer \in CreateAnswers,
          loadAnswer \in LoadAnswers, publicKeyExists \in BOOLEAN :
            setupCommand(args, createAnswer, loadAnswer, publicKeyExists)
    /\ UNCHANGED <<initialized, publicKey, verificationClaim, last, calls, evalVars,
                   site, pwResult, pwRuns, procs, cacheVars>>

----------------------------------------------------------------------------
(* Claim-set operations in progress at the same time. Each handler is an    *)
(* async function: it runs without interruption up to its first await and   *)
(* from its last await to its return; other handlers run in between.        *)

NumProcs == 2

ProcIds == 1..NumProcs

\* one invocation: where it stands, its argument, the currentClaim it read
\* before its awaits, how it returned, and the persisted claim its
\* updateConfig call replaced
NoProc ==
    [pc |-> "idle", op |-> "none", claim |-> Undefined, currentClaim |-> Undefined,
     outcome |-> "none", overwrote |-> Undefined]

NoProcs == [p \in ProcIds |-> NoProc]

ProcReturn(proc, outcome) == [proc EXCEPT !.pc = "done", !.outcome = outcome]

\* the tool awaits resolveDnsRecord when a domain is configured and
\* getHaiClient / verify when the HAI claim is asked for
toolAwaits(claim) ==
    agentDomain # Undefined \/ (agentId # Undefined /\ claim = "verified-hai.ai")

\* the CLI awaits checkHaiStatus
cliAwaits(level) ==
    level = "verified-hai.ai" /\ agentId # Undefined
        /\ publicKeyHashOf(publicKey) # Undefined

\* validationError ? return error : api.updateConfig({ verificationClaim })
claimSettle(p, proc, validationError) ==
    IF validationError # Null
    THEN /\ procs' = [procs EXCEPT ![p] = ProcReturn(proc, "unmet")]
         /\ UNCHANGED verificationClaim
    ELSE /\ updateConfig(proc.claim)
         /\ procs' = [procs EXCEPT ![p] =
                         [ProcReturn(proc, "updated") EXCEPT
                             !.overwrote = orDefault(verificationClaim, "unverified")]]

\* the tool from its lookups to its return
toolClaimTail(p, proc) ==
    \E dnsAnswer \in (IF agentDomain # Undefined THEN DnsAnswers ELSE {NoDnsLookup}) :
    \E haiAnswer \in (IF agentId # Undefined /\ proc.claim = "verified-hai.ai"
                      THEN HaiClientAnswers ELSE {NotChecked}) :
        claimSettle(p, proc,
            validateClaimRequirementsCall4(proc.claim, agentDomain # Undefined,
                dnsProof(dnsAnswer, publicKeyHashOf(publicKey)),
                haiAnswer = "registered"))

\* the CLI command from its lookup to its return
cliClaimTail(p, proc) ==
    \E haiAnswer \in (IF cliAwaits(proc.claim) THEN HaiStatusAnswers ELSE {NotChecked}) :
        claimSettle(p, proc,
            validateClaimRequirements(proc.claim, agentDomain # Undefined,
                                      haiAnswer = "verified"))

\* tool jacs_set_verification_claim up to its first await, or to its return
\* when it awaits nothing
toolClaimBegin(p, claim) ==
    LET currentClaim == orDefault(verificationClaim, "unverified")
        proc == [NoProc EXCEPT !.op = "tool", !.claim = claim,
                               !.currentClaim = currentClaim]
    IN
    IF ~initialized
    THEN /\ procs' = [procs EXCEPT ![p] = ProcReturn(proc, "not-initialized")]
         /\ UNCHANGED verificationClaim
    ELSE IF ~canUpgradeClaim(currentClaim, claim)
    THEN /\ procs' = [procs EXCEPT ![p] = ProcReturn(proc, "downgrade")]
         /\ UNCHANGED verificationClaim
    ELSE IF toolAwaits(claim)
    THEN /\ procs' = [procs EXCEPT ![p] = [proc EXCEPT !.pc = "awaiting"]]
         /\ UNCHANGED verificationClaim
    ELSE toolClaimTail(p, proc)

\* CLI `claim <level>` of src/cli.ts up to its await, or to its return
cliClaimBegin(p, level) ==
    LET currentClaim == orDefault(verificationClaim, "unverified")
        proc == [NoProc EXCEPT !.op = "cli", !.claim = level,
                               !.currentClaim = currentClaim]
    IN
    IF ~initialized
    THEN /\ procs' = [procs EXCEPT ![p] = ProcReturn(proc, "not-initialized")]
         /\ UNCHANGED verificationClaim
    ELSE IF ~includes(validLevels, level)
    THEN /\ procs' = [procs EXCEPT ![p] = ProcReturn(proc, "invalid-level")]
         /\ UNCHANGED verificationClaim
    ELSE IF ~canUpgradeClaim(currentClaim, level)
    THEN /\ procs' = [procs EXCEPT ![p] = ProcReturn(proc, "downgrade")]
         /\ UNCHANGED verificationClaim
    ELSE IF cliAwaits(level)
    THEN /\ procs' = [procs EXCEPT ![p] = [proc EXCEPT !.pc = "awaiting"]]
         /\ UNCHANGED verificationClaim
    ELSE cliClaimTail(p, proc)

raceFrame ==
    UNCHANGED <<configVars, last, calls, evalVars, otherVars, pwRuns, setup, cacheVars>>

ToolClaimBegin ==
    /\ \E p \in ProcIds, claim \in LevelInputs :
          procs[p].pc = "idle" /\ toolClaimBegin(p, claim)
    /\ raceFrame

CliClaimBegin ==
    /\ \E p \in ProcIds, level \in LevelInputs :
          procs[p].pc = "idle" /\ cliClaimBegin(p, level)
    /\ raceFrame

\* an awaited lookup answers and the handler runs on to its return
ClaimResume ==
    /\ \E p \in ProcIds :
          /\ procs[p].pc = "awaiting"
          /\ IF procs[p].op = "tool" THEN toolClaimTail(p, procs[p])
                                     ELSE cliClaimTail(p, procs[p])
    /\ raceFrame

----------------------------------------------------------------------------
(* The public-key cache of src/tools/index.ts and its two users:            *)
(* fetchPublicKey and the tool jacs_fetch_pubkey                            *)

CACHE_TTL_MS == 5 * 60 * 1000

\* the clock advances by TickMs, MaxTicks times at most
TickMs == 150000
MaxTicks == 3

\* domains as callers write them, and the tool's params.domain
CacheDomains == {"agent.example", "Agent.Example", "b.example"}
ToolDomains == CacheDomains \cup {"https://Agent.Example/"}

\* input.replace(/^https?:\/\//, "").replace(/\/$/, "")
sanitizeDomain(input) ==
    IF input = "https://Agent.Example/" THEN "Agent.Example" ELSE input

\* domain.toLowerCase()
toLowerCase(domain) ==
    IF domain = "Agent.Example" THEN "agent.example" ELSE domain

CacheKeys == {toLowerCase(d) : d \in CacheDomains}

\* a CachedKey, or the absence of an entry
NoEntry ==
    [present |-> FALSE, key |-> Undefined, algorithm |-> Undefined,
     agentId |-> Undefined, publicKeyHash |-> Undefined, fetchedAt |-> 0]

CachedKey(key, algorithm, id, publicKeyHash, fetchedAt) ==
    [present |-> TRUE, key |-> key, algorithm |-> algorithm, agentId |-> id,
     publicKeyHash |-> publicKeyHash, fetchedAt |-> fetchedAt]

EmptyCache == [k \in CacheKeys |-> NoEntry]

\* what the request to /.well-known/jacs-pubkey.json comes to: fetch throws,
\* times out, answers with a status that is not ok, or answers with JSON
WellKnownAnswers ==
    [kind : {"throws", "timeout", "not-ok"}, publicKey : {Undefined},
     algorithm : {Undefined}, agentId : {Undefined}, publicKeyHash : {Undefined}]
    \cup
    [kind : {"json"}, publicKey : {Undefined, ""}, algorithm : {Undefined},
     agentId : AgentIds, publicKeyHash : {"hA"}]
    \cup
    [kind : {"json"}, publicKey : PublicKeys, algorithm : {Undefined, "pq2025"},
     agentId : AgentIds \cup {Undefined}, publicKeyHash : {Undefined, "hA"}]

NoAnswer ==
    [kind |-> "none", publicKey |-> Undefined, algorithm |-> Undefined,
     agentId |-> Undefined, publicKeyHash |-> Undefined]

NoPending == [op |-> "none", domain |-> Undefined, skipCache |-> FALSE]

\* the last fetch that returned: cached is the flag of its result, data the
\* key info it returned, answer the response it got
NoCacheOp ==
    [op |-> "none", domain |-> Undefined, skipCache |-> FALSE, outcome |-> "none",
     cached |-> FALSE, data |-> NoEntry, answer |-> NoAnswer]

CacheIdle ==
    /\ pubkeyCache = EmptyCache
    /\ now = 0
    /\ pending = NoPending
    /\ cacheOp = NoCacheOp

\* mutant: an entry is served whatever its age
cacheFresh_AnyAge(cached) == cached.present

\* cached && Date.now() - cached.fetchedAt < CACHE_TTL_MS
cacheFresh(cached) == cached.present /\ now - cached.fetchedAt < CACHE_TTL_MS

\* data.algorithm || "unknown"
algorithmOf(answer) == orDefault(answer.algorithm, "unknown")

\* response.ok and data.publicKey is truthy
hasPublicKey(answer) ==
    answer.kind = "json" /\ answer.publicKey # Undefined /\ answer.publicKey # ""

\* fetchPublicKey(domain, skipCache) up to its await of fetch, or to its
\* return on a cache hit
fetchPublicKeyBegin(domain, skipCache) ==
    LET cacheKey == toLowerCase(domain)
        cached == pubkeyCache[cacheKey]
    IN  IF ~skipCache /\ cacheFresh(cached)
        THEN /\ cacheOp' = [NoCacheOp EXCEPT !.op = "fetchPublicKey",
                               !.domain = domain, !.skipCache = skipCache,
                               !.outcome = "hit", !.cached = TRUE, !.data = cached]
             /\ UNCHANGED <<pubkeyCache, pending>>
        ELSE /\ pending' = [op |-> "fetchPublicKey", domain |-> domain,
                            skipCache |-> skipCache]
             /\ UNCHANGED <<pubkeyCache, cacheOp>>

\* fetchPublicKey from the response to its return
fetchPublicKeyEnd(answer) ==
    LET cacheKey == toLowerCase(pending.domain)
        keyInfo == CachedKey(answer.publicKey, algorithmOf(answer), answer.agentId,
                             answer.publicKeyHash, now)
        returned == [NoCacheOp EXCEPT !.op = "fetchPublicKey",
                        !.domain = pending.domain, !.skipCache = pending.skipCache,
                        !.answer = answer]
    IN  /\ pending' = NoPending
        /\ IF hasPublicKey(answer)
           THEN /\ pubkeyCache' = [pubkeyCache EXCEPT ![cacheKey] = keyInfo]
                /\ cacheOp' = [returned EXCEPT !.outcome = "fetched", !.data = keyInfo]
           ELSE /\ cacheOp' = [returned EXCEPT !.outcome = "error"]
                /\ UNCHANGED pubkeyCache

\* tool jacs_fetch_pubkey up to its await of fetch, or to its return on a
\* cache hit; the result of a hit carries the key and the algorithm
jacs_fetch_pubkey_Begin(paramsDomain, skipCache) ==
    LET domain == sanitizeDomain(paramsDomain)
        cacheKey == toLowerCase(domain)
        cached == pubkeyCache[cacheKey]
    IN  IF ~skipCache /\ cacheFresh(cached)
        THEN /\ cacheOp' = [NoCacheOp EXCEPT !.op = "jacs_fetch_pubkey",
                               !.domain = domain, !.skipCache = skipCache,
                               !.outcome = "hit", !.cached = TRUE,
                               !.data = [cached EXCEPT !.agentId = Undefined,
                                                       !.publicKeyHash = Undefined]]
             /\ UNCHANGED <<pubkeyCache, pending>>
        ELSE /\ pending' = [op |-> "jacs_fetch_pubkey", domain |-> domain,
                            skipCache |-> skipCache]
             /\ UNCHANGED <<pubkeyCache, cacheOp>>

\* tool jacs_fetch_pubkey from the response to its return: the entry it
\* caches has key, algorithm and fetchedAt; the result it returns has the
\* agentId of the response as well
jacs_fetch_pubkey_End(answer) ==
    LET cacheKey == toLowerCase(pending.domain)
        returned == [NoCacheOp EXCEPT !.op = "jacs_fetch_pubkey",
                        !.domain = pending.domain, !.skipCache = pending.skipCache,
                        !.answer = answer]
    IN  /\ pending' = NoPending
        /\ IF hasPublicKey(answer)
           THEN /\ pubkeyCache' =
                      [pubkeyCache EXCEPT ![cacheKey] =
                          CachedKey(answer.publicKey, algorithmOf(answer),
                                    Undefined, Undefined, now)]
                /\ cacheOp' = [returned EXCEPT !.outcome = "fetched",
                                  !.data = CachedKey(answer.publicKey,
                                               algorithmOf(answer), answer.agentId,
                                               Undefined, now)]
           ELSE /\ cacheOp' = [returned EXCEPT !.outcome = "error"]
                /\ UNCHANGED pubkeyCache

cacheFrame ==
    UNCHANGED <<configVars, verificationClaim, last, calls, evalVars, otherVars,
                pwRuns, setup, procs>>

FetchPublicKeyBegin ==
    /\ pending.op = "none"
    /\ cacheOp.op = "none"
    /\ \E domain \in CacheDomains, skipCache \in BOOLEAN :
          fetchPublicKeyBegin(domain, skipCache)
    /\ UNCHANGED now
    /\ cacheFrame

FetchPublicKeyEnd ==
    /\ pending.op = "fetchPublicKey"
    /\ \E answer \in WellKnownAnswers : fetchPublicKeyEnd(answer)
    /\ UNCHANGED now
    /\ cacheFrame

JacsFetchPubkeyBegin ==
    /\ pending.op = "none"
    /\ cacheOp.op = "none"
    /\ \E paramsDomain \in ToolDomains, skipCache \in BOOLEAN :
          jacs_fetch_pubkey_Begin(paramsDomain, skipCache)
    /\ UNCHANGED now
    /\ cacheFrame

JacsFetchPubkeyEnd ==
    /\ pending.op = "jacs_fetch_pubkey"
    /\ \E answer \in WellKnownAnswers : jacs_fetch_pubkey_End(answer)
    /\ UNCHANGED now
    /\ cacheFrame

\* time passes while the response is awaited
Tick ==
    /\ pending.op # "none"
    /\ now < MaxTicks * TickMs
    /\ now' = now + TickMs
    /\ UNCHANGED <<pubkeyCache, pending, cacheOp>>
    /\ cacheFrame


----------------------------------------------------------------------------
(* Evaluations of the pure functions on drawn inputs *)

NoTrustEval ==
    [hasDomain |-> FALSE, dnsVerified |-> FALSE, haiRegistered |-> FALSE,
     result |-> "none"]

NoUpgradeEval ==
    [a |-> "unverified", b |-> "unverified", c |-> "unverified", evaluated |-> FALSE,
     ab |-> FALSE, ba |-> FALSE, bc |-> FALSE, ac |-> FALSE, aa |-> FALSE]

NoValidateEval ==
    [claim |-> "unverified", hasDomain |-> FALSE, dnsVerified |-> FALSE,
     haiRegistered |-> FALSE, evaluated |-> FALSE, result |-> Null, result3 |-> Null]

EvalTrustLevel ==
    /\ \E hasDomain \in BOOLEAN, dnsVerified \in BOOLEAN, haiRegistered \in BOOLEAN :
          trustEval' = [hasDomain |-> hasDomain, dnsVerified |-> dnsVerified,
                        haiRegistered |-> haiRegistered,
                        result |-> determineTrustLevel(hasDomain, dnsVerified,
                                                       haiRegistered)]
    /\ UNCHANGED <<configVars, verificationClaim, last, calls, upgradeEval, validateEval,
                 otherVars, moreVars>>

EvalCanUpgrade ==
    /\ \E a \in VerificationClaims, b \in VerificationClaims, c \in VerificationClaims :
          upgradeEval' = [a |-> a, b |-> b, c |-> c, evaluated |-> TRUE,
                          ab |-> canUpgradeClaim(a, b), ba |-> canUpgradeClaim(b, a),
                          bc |-> canUpgradeClaim(b, c), ac |-> canUpgradeClaim(a, c),
                          aa |-> canUpgradeClaim(a, a)]
    /\ UNCHANGED <<configVars, verificationClaim, last, calls, trustEval, validateEval,
                 otherVars, moreVars>>

\* result: the four-argument call of the newer callers; result3: the
\* three-argument call (claim, hasDomain, haiRegistered) of src/cli.ts
EvalValidate ==
    /\ \E claim \in VerificationClaims, hasDomain \in BOOLEAN, dnsVerified \in BOOLEAN,
          haiRegistered \in BOOLEAN :
          validateEval' =
             [claim |-> claim, hasDomain |-> hasDomain, dnsVerified |-> dnsVerified,
              haiRegistered |-> haiRegistered, evaluated |-> TRUE,
              result |-> validateClaimRequirementsCall4(claim, hasDomain,
                                                        dnsVerified, haiRegistered),
              result3 |-> validateClaimRequirements(claim, hasDomain, haiRegistered)]
    /\ UNCHANGED <<configVars, verificationClaim, last, calls, trustEval, upgradeEval,
                 otherVars, moreVars>>

----------------------------------------------------------------------------
(* Specifications *)

\* any configuration with a valid persisted claim (or none yet)
Init ==
    /\ initialized \in BOOLEAN
    /\ verificationClaim \in VerificationClaims \cup {Undefined}
    /\ agentDomain \in Domains \cup {Undefined}
    /\ agentId \in AgentIds \cup {Undefined}
    /\ publicKey \in PublicKeys \cup {Undefined}
    /\ last = NoAttempt
    /\ calls = Calls(0, <<>>)
    /\ trustEval = NoTrustEval
    /\ upgradeEval = NoUpgradeEval
    /\ validateEval = NoValidateEval
    /\ site = NoSite
    /\ pwInput = NoPwInput
    /\ pwResult = NoPwResult
    /\ pwRuns = <<>>
    /\ setup = NoSetup
    /\ procs = NoProcs
    /\ CacheIdle

Next == ToolSetClaim \/ CliClaim \/ CliClaimProof

Spec == Init /\ [][Next]_vars

\* the engine's functions alone
InitEngine ==
    /\ initialized = TRUE
    /\ verificationClaim = Undefined
    /\ agentDomain = Undefined
    /\ agentId = Undefined
    /\ publicKey = Undefined
    /\ last = NoAttempt
    /\ calls = Calls(0, <<>>)
    /\ trustEval = NoTrustEval
    /\ upgradeEval = NoUpgradeEval
    /\ validateEval = NoValidateEval
    /\ site = NoSite
    /\ pwInput = NoPwInput
    /\ pwResult = NoPwResult
    /\ pwRuns = <<>>
    /\ setup = NoSetup
    /\ procs = NoProcs
    /\ CacheIdle

NextEngine == EvalTrustLevel \/ EvalCanUpgrade \/ EvalValidate

SpecEngine == InitEngine /\ [][NextEngine]_vars

\* how many resolutions a run makes one after the other
MaxRuns == 3

\* mutant: a resolved password is kept in the environment for the next call
ResolvePasswordRun_CachesInEnv ==
    LET outcome == resolvePrivateKeyPassword(pwInput.options)
    IN  /\ Len(pwRuns) < MaxRuns
        /\ pwRuns' = Append(pwRuns, outcome)
        /\ pwInput' = IF outcome.kind = "password"
                      THEN [pwInput EXCEPT !.envPassword = outcome.password]
                      ELSE pwInput
        /\ UNCHANGED <<configVars, verificationClaim, last, calls, evalVars, site,
                       pwResult, laterVars>>

\* one more invocation of resolvePrivateKeyPassword: the function is
\* synchronous, so invocations run one after the other in any order; it reads
\* process.env and the file and assigns to neither
ResolvePasswordRun ==
    /\ Len(pwRuns) < MaxRuns
    /\ pwRuns' = Append(pwRuns, resolvePrivateKeyPassword(pwInput.options))
    /\ UNCHANGED <<configVars, verificationClaim, last, calls, evalVars, site,
                   pwInput, pwResult, laterVars>>

\* every combination of the three sources and the option, over a few files
SourceInputs ==
    [options : [explicitPasswordFile : Paths \cup {Unset},
                requirePassword : RequireOptions],
     envPassword : EnvSecrets \cup {Unset},
     envPasswordFile : Paths \cup {Unset},
     platform : {"linux"},
     file : SampleFiles]

\* one file source, over every file and platform
FileInputs ==
    [options : [explicitPasswordFile : {<<"p">>, <<" ", "p">>},
                requirePassword : RequireOptions],
     envPassword : {Unset}, envPasswordFile : {Unset},
     platform : Platforms, file : FileStates]
    \cup
    [options : [explicitPasswordFile : {Unset}, requirePassword : RequireOptions],
     envPassword : {Unset}, envPasswordFile : {<<"p">>, <<" ", "p">>},
     platform : Platforms, file : FileStates]

InitPassword ==
    /\ initialized = TRUE
    /\ verificationClaim = Undefined
    /\ agentDomain = Undefined
    /\ agentId = Undefined
    /\ publicKey = Undefined
    /\ last = NoAttempt
    /\ calls = Calls(0, <<>>)
    /\ trustEval = NoTrustEval
    /\ upgradeEval = NoUpgradeEval
    /\ validateEval = NoValidateEval
    /\ site = NoSite
    /\ pwInput \in SourceInputs \cup FileInputs
    /\ pwResult = NoPwResult
    /\ pwRuns = <<>>
    /\ setup = NoSetup
    /\ procs = NoProcs
    /\ CacheIdle

NextPassword == ResolvePassword

SpecPassword == InitPassword /\ [][NextPassword]_vars

NextPasswordRuns == ResolvePasswordRun

SpecPasswordRuns == InitPassword /\ [][NextPasswordRuns]_vars

\* setupCommand once, from every environment, a few files, and a home
\* directory with or without jacs.config.json
SetupInputs ==
    [options : {NoPwInput.options},
     envPassword : EnvSecrets \cup {Unset},
     envPasswordFile : {Unset, <<"p">>, <<" ">>},
     platform : {"linux"},
     file : SampleFiles]

InitSetup ==
    /\ initialized = FALSE
    /\ verificationClaim = Undefined
    /\ agentDomain = Undefined
    /\ agentId = Undefined
    /\ publicKey = Undefined
    /\ last = NoAttempt
    /\ calls = Calls(0, <<>>)
    /\ trustEval = NoTrustEval
    /\ upgradeEval = NoUpgradeEval
    /\ validateEval = NoValidateEval
    /\ site = NoSite
    /\ pwInput \in SetupInputs
    /\ pwResult = NoPwResult
    /\ pwRuns = <<>>
    /\ setup \in {[NoSetup EXCEPT !.configExists = b] : b \in BOOLEAN}
    /\ procs = NoProcs
    /\ CacheIdle

NextSetup == SetupCommand

SpecSetup == InitSetup /\ [][NextSetup]_vars

\* claim-set operations side by side, from every configuration
InitRace ==
    /\ initialized \in BOOLEAN
    /\ verificationClaim \in VerificationClaims \cup {Undefined}
    /\ agentDomain \in Domains \cup {Undefined}
    /\ agentId \in AgentIds \cup {Undefined}
    /\ publicKey \in PublicKeys \cup {Undefined}
    /\ last = NoAttempt
    /\ calls = Calls(0, <<>>)
    /\ trustEval = NoTrustEval
    /\ upgradeEval = NoUpgradeEval
    /\ validateEval = NoValidateEval
    /\ site = NoSite
    /\ pwInput = NoPwInput
    /\ pwResult = NoPwResult
    /\ pwRuns = <<>>
    /\ setup = NoSetup
    /\ procs = NoProcs
    /\ CacheIdle

NextRace == ToolClaimBegin \/ CliClaimBegin \/ ClaimResume

SpecRace == InitRace /\ [][NextRace]_vars

\* the moments the clock can show
Times == {i * TickMs : i \in 0..MaxTicks}

\* the entries earlier fetches can have left
CacheEntries ==
    {NoEntry} \cup
    {CachedKey(key, "unknown", id, publicKeyHash, fetchedAt) :
        key \in PublicKeys, id \in AgentIds \cup {Undefined},
        publicKeyHash \in {Undefined, "hA"}, fetchedAt \in Times}

\* one key fetch, at any moment, over any cache earlier fetches can have
\* left, while time passes
InitCache ==
    /\ initialized = TRUE
    /\ verificationClaim = Undefined
    /\ agentDomain = Undefined
    /\ agentId = Undefined
    /\ publicKey = Undefined
    /\ last = NoAttempt
    /\ calls = Calls(0, <<>>)
    /\ trustEval = NoTrustEval
    /\ upgradeEval = NoUpgradeEval
    /\ validateEval = NoValidateEval
    /\ site = NoSite
    /\ pwInput = NoPwInput
    /\ pwResult = NoPwResult
    /\ pwRuns = <<>>
    /\ setup = NoSetup
    /\ procs = NoProcs
    /\ now \in Times
    /\ pubkeyCache \in {c \in [CacheKeys -> CacheEntries] :
                           \A k \in CacheKeys : c[k].fetchedAt <= now}
    /\ pending = NoPending
    /\ cacheOp = NoCacheOp

NextCache ==
    \/ FetchPublicKeyBegin
    \/ FetchPublicKeyEnd
    \/ JacsFetchPubkeyBegin
    \/ JacsFetchPubkeyEnd
    \/ Tick

SpecCache == InitCache /\ [][NextCache]_vars

\* one operation, of any kind, from every configuration: the operations read
\* the configuration and the answers of DNS, registry and well-known endpoint,
\* and nothing of what an earlier operation reported
NextOps ==
    \/ Fresh /\ ToolSetClaim
    \/ Fresh /\ CliClaim
    \/ Fresh /\ CliClaimProof
    \/ Fresh /\ CliRegister
    \/ Fresh /\ CliRegisterHaiClient
    \/ Fresh /\ Identity
    \/ Fresh /\ GetAttestation
    \/ Fresh /\ LookupAgent
    \/ Fresh /\ VerifyAuto
    \/ Fresh /\ CliAttestation
    \/ Fresh /\ CliAttestationHaiClient

SpecOps == Init /\ [][NextOps]_vars

----------------------------------------------------------------------------
(* Properties *)

\* rank in the order unverified < verified < verified-hai.ai; a configuration
\* without a claim counts as unverified; anything else ranks below all
Rank(c) ==
    CASE c = Undefined -> 0
      [] c = "unverified" -> 0
      [] c = "verified" -> 1
      [] c = "verified-hai.ai" -> 2
      [] OTHER -> -1

\* C1: over any sequence of non-overlapping claim-set operations (tool and both
\* CLI revisions), with any target level and any evidence, the rank of the
\* persisted verificationClaim never decreases.
C1_ClaimRankNeverDecreases ==
    [][Rank(verificationClaim') >= Rank(verificationClaim)]_vars

\* C1 witness: a claim-set operation raised a persisted `verified` to
\* `verified-hai.ai`.
C1_Witness ==
    /\ last.outcome = "updated"
    /\ last.previousClaim = "verified"
    /\ verificationClaim = "verified-hai.ai"

\* C2: determineTrustLevel is `attested` iff haiRegistered; otherwise `domain`
\* iff hasDomain and dnsVerified; otherwise `basic`.
C2_TrustLevelTable ==
    trustEval.result # "none" =>
        /\ trustEval.result \in TrustLevels
        /\ (trustEval.result = "attested") <=> trustEval.haiRegistered
        /\ (trustEval.result = "domain") <=>
               (~trustEval.haiRegistered /\ trustEval.hasDomain /\ trustEval.dnsVerified)
        /\ (trustEval.result = "basic") <=>
               (~trustEval.haiRegistered
                /\ ~(trustEval.hasDomain /\ trustEval.dnsVerified))

\* C2 witness: registered without domain or DNS evaluates to `attested`.
C2_Witness ==
    /\ trustEval.result = "attested"
    /\ ~trustEval.hasDomain
    /\ ~trustEval.dnsVerified
    /\ trustEval.haiRegistered

\* C3: canUpgradeClaim(a, b) is true iff the rank of b is at least the rank of
\* a; canUpgradeClaim(x, x) is true; a strictly lower second rank gives false.
C3_CanUpgradeIffRankNotLower ==
    upgradeEval.evaluated =>
        /\ upgradeEval.ab <=> (Rank(upgradeEval.b) >= Rank(upgradeEval.a))
        /\ upgradeEval.aa
        /\ (Rank(upgradeEval.b) < Rank(upgradeEval.a)) => ~upgradeEval.ab

\* C3 witness: a downgrade pair was evaluated and refused.
C3_Witness ==
    /\ upgradeEval.evaluated
    /\ upgradeEval.a = "verified-hai.ai"
    /\ upgradeEval.b = "verified"
    /\ ~upgradeEval.ab

\* C4: R(a, b) = canUpgradeClaim(a, b) is reflexive, transitive, antisymmetric
\* and total on the three claim values.
C4_CanUpgradeIsTotalOrder ==
    upgradeEval.evaluated =>
        /\ upgradeEval.aa
        /\ (upgradeEval.ab /\ upgradeEval.bc) => upgradeEval.ac
        /\ (upgradeEval.ab /\ upgradeEval.ba) => (upgradeEval.a = upgradeEval.b)
        /\ upgradeEval.ab \/ upgradeEval.ba

\* C4 witness: a chain of three distinct claims with R(a,b), R(b,c) and R(a,c).
C4_Witness ==
    /\ upgradeEval.evaluated
    /\ upgradeEval.a # upgradeEval.b
    /\ upgradeEval.b # upgradeEval.c
    /\ upgradeEval.ab
    /\ upgradeEval.bc
    /\ upgradeEval.ac

\* an error message that is about DNS: none of the domain / registry messages
DnsRelated(msg) == msg \notin {Null, ErrDomain, ErrHai}

\* C5: validateClaimRequirements(verified, hasDomain = true, dnsVerified, *)
\* returns a DNS-related error when dnsVerified is false and null when it is true.
C5_VerifiedNeedsDnsProof ==
    (validateEval.evaluated /\ validateEval.claim = "verified" /\ validateEval.hasDomain) =>
        IF validateEval.dnsVerified
        THEN validateEval.result = Null
        ELSE validateEval.result # Null /\ DnsRelated(validateEval.result)

\* C6: validateClaimRequirements(verified, hasDomain = false, *, *) returns the
\* error naming the missing domain configuration (jacsAgentDomain), with the
\* four-argument call and with the three-argument call.
C6_VerifiedNeedsDomain ==
    (validateEval.evaluated /\ validateEval.claim = "verified" /\ ~validateEval.hasDomain) =>
        /\ validateEval.result = ErrDomain
        /\ validateEval.result3 = ErrDomain

\* C6 witness: no domain, every other evidence true, the domain error returned.
C6_Witness ==
    /\ validateEval.evaluated
    /\ validateEval.claim = "verified"
    /\ ~validateEval.hasDomain
    /\ validateEval.dnsVerified
    /\ validateEval.haiRegistered
    /\ validateEval.result = ErrDomain

\* C7: validateClaimRequirements(verified-hai.ai, hasDomain, dnsVerified,
\* haiRegistered) returns the registry error whenever haiRegistered is false and
\* null whenever it is true, for every hasDomain and dnsVerified.
C7_HaiClaimFollowsRegistry ==
    (validateEval.evaluated /\ validateEval.claim = "verified-hai.ai") =>
        IF validateEval.haiRegistered
        THEN validateEval.result = Null
        ELSE validateEval.result = ErrHai

\* C8: validateClaimRequirements(unverified, *, *, *) returns null for every
\* combination of the evidence arguments.
C8_UnverifiedAlwaysValid ==
    (validateEval.evaluated /\ validateEval.claim = "unverified") =>
        /\ validateEval.result = Null
        /\ validateEval.result3 = Null

\* C8 witness: unverified validated with no evidence at all.
C8_Witness ==
    /\ validateEval.evaluated
    /\ validateEval.claim = "unverified"
    /\ ~validateEval.hasDomain
    /\ ~validateEval.dnsVerified
    /\ ~validateEval.haiRegistered
    /\ validateEval.result = Null

\* the TXT record looked up in the attempt publishes the hash of the agent's
\* current public key
TxtPublishesAgentKey(attempt) ==
    /\ attempt.dnsAnswer.kind = "txt"
    /\ publicKey # Undefined
    /\ parseDnsTxt(attempt.dnsAnswer).publicKeyHash = hashString(publicKey)

\* C9: a claim-set operation changes the persisted claim to `verified` only if,
\* in that attempt, a domain is configured and the TXT record looked up for it
\* carries the agent's current public-key hash.
C9_VerifiedOnlyWithDnsProof ==
    (last.outcome = "updated" /\ last.level = "verified"
     /\ last.previousClaim # "verified") =>
        /\ agentDomain # Undefined
        /\ TxtPublishesAgentKey(last)

\* C10: a claim-set operation changes the persisted claim to `verified-hai.ai`
\* only if, in that attempt, the registry answered that the agent is registered.
C10_HaiClaimOnlyWhenRegistered ==
    (last.outcome = "updated" /\ last.level = "verified-hai.ai"
     /\ last.previousClaim # "verified-hai.ai") =>
        last.haiAnswer \in {"registered", "verified"}

\* C11: when the target claim ranks strictly below the persisted claim, the
\* attempt ends with the downgrade error whatever evidence was gathered,
\* validateClaimRequirements is not evaluated in it, and the persisted claim is
\* unchanged.
C11_DowngradeRejectedBeforeValidation ==
    (/\ last.op # "none"
     /\ last.outcome # "not-initialized"
     /\ last.level \in VerificationClaims
     /\ Rank(last.level) < Rank(last.previousClaim)) =>
        /\ last.outcome = "downgrade"
        /\ last.error = ErrDowngrade
        /\ calls.validate = 0
        /\ calls.updates = <<>>
        /\ verificationClaim = last.previousClaim

\* C11 witness: `verified` asked on a persisted `verified-hai.ai` while the DNS
\* record matches the agent's key: refused as a downgrade all the same.
C11_Witness ==
    /\ last.op = "cliProof"
    /\ last.level = "verified"
    /\ last.previousClaim = "verified-hai.ai"
    /\ last.dnsVerified
    /\ last.outcome = "downgrade"
    /\ calls.validate = 0

ErrorOutcomes == {"not-initialized", "invalid-level", "downgrade", "unmet"}

\* C12: an attempt that ends in an error leaves the persisted configuration
\* (claim, domain, agent id) unchanged and calls updateConfig not at all;
\* updateConfig is called only by a successful attempt, exactly once, with the
\* verificationClaim field alone.
C12_ClaimSetAllOrNothing ==
    [][/\ (last'.outcome \in ErrorOutcomes) =>
              /\ verificationClaim' = verificationClaim
              /\ agentDomain' = agentDomain
              /\ agentId' = agentId
              /\ calls'.updates = <<>>
       /\ (calls'.updates # <<>>) =>
              /\ last'.outcome = "updated"
              /\ calls'.updates = <<{"verificationClaim"}>>
       /\ (last'.outcome = "updated") => Len(calls'.updates) = 1]_vars

\* C12 witness: an attempt failed on an unmet requirement after gathering
\* evidence, and the persisted claim is the one from before the attempt.
C12_Witness ==
    /\ last.outcome = "unmet"
    /\ last.op = "tool"
    /\ last.previousClaim = "verified"
    /\ verificationClaim = "verified"
    /\ calls.updates = <<>>

----------------------------------------------------------------------------
(* Frame of the persisted claim, and the evidence the call sites gather *)

ClaimSetOps == {"tool", "cli", "cliProof"}
RegisterOps == {"cliRegister", "cliRegisterHaiClient"}

\* the step is a claim-set operation that validated the target and wrote it
ClaimSetWrote ==
    /\ last' # last
    /\ last'.op \in ClaimSetOps
    /\ last'.outcome = "updated"
    /\ calls'.validate = 1
    /\ verificationClaim' = last'.level

\* C13 as stated: the persisted claim is mutated only by the explicit
\* claim-set operation, which validates it; every other operation (register,
\* attestation, identity, lookup, verification) leaves it unchanged.
C13_OnlyClaimSetMutatesClaim ==
    [][/\ (verificationClaim' # verificationClaim) => ClaimSetWrote
       /\ (site' # site) => verificationClaim' = verificationClaim]_vars

\* C13 as amended: the persisted claim is mutated only by the claim-set
\* operation, which validates it, and by a CLI `register` that the registry
\* accepted, which sets it to verified-hai.ai; attestation, identity, lookup
\* and verification, and a register that is previewed, refused or fails,
\* leave it unchanged.
C13_OnlyClaimSetOrRegisterMutatesClaim ==
    [][/\ (verificationClaim' # verificationClaim) =>
            \/ ClaimSetWrote
            \/ /\ site' # site
               /\ site'.op \in RegisterOps
               /\ site'.outcome = "registered"
               /\ verificationClaim' = "verified-hai.ai"
       /\ (site' # site /\ site'.op \notin RegisterOps) =>
            verificationClaim' = verificationClaim
       /\ (site' # site /\ site'.outcome # "registered") =>
            verificationClaim' = verificationClaim]_vars

\* C13 witness: a successful `register` raised the claim of an unverified agent
C13_Witness ==
    /\ site.op = "cliRegister"
    /\ site.outcome = "registered"
    /\ site.previousClaim = "unverified"
    /\ verificationClaim = "verified-hai.ai"

DnsFailed(answer) == answer.kind \in {"throw", "empty"}
RegistryFailed(answer) == answer \in {"throws", "no-client", "null"}

\* C14: at every call site that feeds determineTrustLevel or
\* validateClaimRequirements, evidence that could not be gathered is false:
\* dnsVerified is false when the DNS lookup threw or found no record or the
\* public key is missing, and haiRegistered is false when the registry call
\* threw or no client was available.
C14_FailedEvidenceIsFalse ==
    /\ last.op # "none" =>
          /\ DnsFailed(last.dnsAnswer) => ~last.dnsVerified
          /\ RegistryFailed(last.haiAnswer) => ~last.haiRegistered
          /\ publicKey = Undefined => ~last.dnsVerified
    /\ site.op # "none" =>
          /\ DnsFailed(site.dnsAnswer) => ~site.dnsVerified
          /\ RegistryFailed(site.haiAnswer) => ~site.haiRegistered
          /\ (site.request.target = "self" /\ publicKey = Undefined) =>
                ~site.dnsVerified
          /\ site.keyAnswer.kind = "error" => ~site.dnsVerified

\* C14 witness: jacs_identity reported basic trust after both lookups threw
C14_Witness ==
    /\ site.op = "jacs_identity"
    /\ site.outcome = "reported"
    /\ site.dnsAnswer.kind = "throw"
    /\ site.haiAnswer = "throws"
    /\ ~site.dnsVerified
    /\ ~site.haiRegistered
    /\ site.trustLevel = "basic"

TrustRank(level) ==
    CASE level = "basic" -> 0
      [] level = "domain" -> 1
      [] level = "attested" -> 2

\* C15: a claim-set operation that succeeds with target c on the evidence
\* (hasDomain, dnsVerified, haiRegistered) does not exceed that evidence:
\* determineTrustLevel of it ranks at least as high as c.
C15_ClaimWithinEvidence ==
    last.outcome = "updated" =>
        TrustRank(determineTrustLevel(agentDomain # Undefined, last.dnsVerified,
                                      last.haiRegistered)) >= Rank(last.level)

----------------------------------------------------------------------------
(* Password resolution: which source is used, and when it fails *)

Resolved == pwResult.kind # "none"
ExplicitSet == pwInput.options.explicitPasswordFile # Unset
EnvSet == pwInput.envPassword # Unset
PathEnvSet == pwInput.envPasswordFile # Unset

ConfiguredSet ==
    (IF ExplicitSet THEN {"--password-file"} ELSE {})
    \cup (IF EnvSet THEN {"JACS_PRIVATE_KEY_PASSWORD"} ELSE {})
    \cup (IF PathEnvSet THEN {"JACS_PASSWORD_FILE"} ELSE {})

Range(seq) == {seq[i] : i \in 1..Len(seq)}

Whitespace == {" ", "\n", "\r", "\t"}
Blank(s) == \A i \in 1..Len(s) : s[i] \in Whitespace

\* s without its leading and trailing whitespace
Core(s) ==
    LET inked == {i \in 1..Len(s) : s[i] \notin Whitespace}
    IN  IF inked = {} THEN <<>>
        ELSE SubSeq(s, CHOOSE i \in inked : \A j \in inked : i <= j,
                       CHOOSE i \in inked : \A j \in inked : i >= j)

\* content without its trailing run of CR and LF
SecretOf(content) ==
    LET ends == {k \in 0..Len(content) :
                    /\ \A i \in (k + 1)..Len(content) : content[i] \in {"\r", "\n"}
                    /\ (k = 0 \/ content[k] \notin {"\r", "\n"})}
    IN  SubSeq(content, 1, CHOOSE k \in ends : TRUE)

\* no permission bit of group or other is set
OwnerOnly(mode) == (mode \div 8) % 8 = 0 /\ mode % 8 = 0

\* the file a path names passes every check of a file source
FileOk(path) ==
    LET file == pwInput.file
    IN  /\ Core(path) = file.path
        /\ file.kind = "file"
        /\ (pwInput.platform = "win32" \/ OwnerOnly(file.mode))
        /\ file.readable
        /\ ~Blank(SecretOf(file.content))

\* C16 as stated: with more than one source configured, resolution fails
\* with an error that names every configured source, whatever
\* requirePassword is.
C16_MultipleSourcesNamed ==
    (Resolved /\ Cardinality(ConfiguredSet) > 1) =>
        /\ pwResult.kind = "error"
        /\ ConfiguredSet \subseteq Range(pwResult.error.sources)

\* C16 as amended: with more than one source configured, resolution always
\* throws and returns neither a password nor null, whatever requirePassword
\* is; the error is `Multiple password sources configured`, naming every
\* configured source, unless an environment variable is empty or
\* whitespace-only: then it is that variable's `is set but empty` error
\* (JACS_PRIVATE_KEY_PASSWORD's first), which names that variable alone.
C16_MultipleSourcesFailClosed ==
    (Resolved /\ Cardinality(ConfiguredSet) > 1) =>
        /\ pwResult.kind = "error"
        /\ pwResult.password = Unset
        /\ IF EnvSet /\ Blank(pwInput.envPassword)
           THEN /\ pwResult.error.kind = "set-but-empty"
                /\ pwResult.error.sources = <<"JACS_PRIVATE_KEY_PASSWORD">>
           ELSE IF PathEnvSet /\ Blank(pwInput.envPasswordFile)
           THEN /\ pwResult.error.kind = "set-but-empty"
                /\ pwResult.error.sources = <<"JACS_PASSWORD_FILE">>
           ELSE /\ pwResult.error.kind = "multiple-sources"
                /\ Range(pwResult.error.sources) = ConfiguredSet

\* C16 witness: the override and the direct variable are both set, no
\* password is required, and the error names both
C16_Witness ==
    /\ ExplicitSet /\ EnvSet /\ ~PathEnvSet
    /\ pwInput.options.requirePassword = "false"
    /\ pwResult.error.kind = "multiple-sources"
    /\ pwResult.error.sources = <<"--password-file", "JACS_PRIVATE_KEY_PASSWORD">>

\* C17: with exactly one valid source configured, resolution returns that
\* source's secret with matching provenance (env / JACS_PRIVATE_KEY_PASSWORD,
\* file / --password-file, file / JACS_PASSWORD_FILE), and a returned
\* password never comes from a source other than the one sourceName names.
C17_OneSourceProvenance ==
    LET fromEnv ==
            /\ EnvSet
            /\ pwResult.source = "env"
            /\ pwResult.sourceName = "JACS_PRIVATE_KEY_PASSWORD"
            /\ pwResult.password = pwInput.envPassword
        fromExplicit ==
            /\ ExplicitSet
            /\ pwResult.source = "file"
            /\ pwResult.sourceName = "--password-file"
            /\ Core(pwInput.options.explicitPasswordFile) = pwInput.file.path
            /\ pwResult.password = SecretOf(pwInput.file.content)
        fromPathEnv ==
            /\ PathEnvSet
            /\ pwResult.source = "file"
            /\ pwResult.sourceName = "JACS_PASSWORD_FILE"
            /\ Core(pwInput.envPasswordFile) = pwInput.file.path
            /\ pwResult.password = SecretOf(pwInput.file.content)
        returned == pwResult.kind = "password"
    IN  /\ (Resolved /\ Cardinality(ConfiguredSet) = 1) =>
              /\ (EnvSet /\ ~Blank(pwInput.envPassword)) => (returned /\ fromEnv)
              /\ (ExplicitSet /\ FileOk(pwInput.options.explicitPasswordFile)) =>
                    (returned /\ fromExplicit)
              /\ (PathEnvSet /\ FileOk(pwInput.envPasswordFile)) =>
                    (returned /\ fromPathEnv)
        /\ returned =>
              /\ Cardinality(ConfiguredSet) = 1
              /\ (fromEnv \/ fromExplicit \/ fromPathEnv)

\* C17 witness: the path variable alone gave the content of its file
C17_Witness ==
    /\ ConfiguredSet = {"JACS_PASSWORD_FILE"}
    /\ pwInput.file.content = <<"f", "\n">>
    /\ pwResult.kind = "password"
    /\ pwResult.sourceName = "JACS_PASSWORD_FILE"
    /\ pwResult.password = <<"f">>

\* C18: with no source configured, resolution throws `Missing private key
\* password` when requirePassword is true or omitted and returns null when it
\* is false; null is returned in no other situation.
C18_NoSourceMissingOrNull ==
    Resolved =>
        /\ (ConfiguredSet = {} /\ pwInput.options.requirePassword # "false") =>
              (pwResult.kind = "error" /\ pwResult.error.kind = "missing")
        /\ (ConfiguredSet = {} /\ pwInput.options.requirePassword = "false") =>
              pwResult.kind = "null"
        /\ pwResult.kind = "null" =>
              (ConfiguredSet = {} /\ pwInput.options.requirePassword = "false")

\* C18 witness: nothing configured and the option omitted: the missing error
C18_Witness ==
    /\ ConfiguredSet = {}
    /\ pwInput.options.requirePassword = Undefined
    /\ pwResult.kind = "error"
    /\ pwResult.error.kind = "missing"

\* C19: a source that is defined but empty or whitespace-only (either
\* variable, or the override path) makes resolution throw a configuration
\* error; it is never treated as unconfigured, also when requirePassword is
\* false.
C19_BlankSourceIsError ==
    LET someBlank ==
            \/ EnvSet /\ Blank(pwInput.envPassword)
            \/ PathEnvSet /\ Blank(pwInput.envPasswordFile)
            \/ ExplicitSet /\ Blank(pwInput.options.explicitPasswordFile)
    IN  (Resolved /\ someBlank) =>
            /\ pwResult.kind = "error"
            /\ pwResult.error.kind \in
                  {"set-but-empty", "provided-but-empty", "multiple-sources"}
            /\ pwResult.error.sources # <<>>

\* C19 witness: only a whitespace path variable, no password required
C19_Witness ==
    /\ ConfiguredSet = {"JACS_PASSWORD_FILE"}
    /\ pwInput.envPasswordFile = <<" ">>
    /\ pwInput.options.requirePassword = "false"
    /\ pwResult.kind = "error"
    /\ pwResult.error.kind = "set-but-empty"

\* C20: a file source yields a password only if its path is no symlink, is a
\* regular file, on POSIX has no group or other permission bit, is readable
\* and holds more than blanks once trailing CR/LF are stripped; otherwise
\* resolution throws an error naming the source and the path and returns no
\* secret.
C20_FileSourceChecks ==
    LET explicit == pwInput.options.explicitPasswordFile
        path == IF ExplicitSet THEN explicit ELSE pwInput.envPasswordFile
        name == IF ExplicitSet THEN "--password-file" ELSE "JACS_PASSWORD_FILE"
    IN  (/\ Resolved
         /\ Cardinality(ConfiguredSet) = 1
         /\ ~EnvSet
         /\ ~Blank(path)) =>
            /\ pwResult.kind = "password" <=> FileOk(path)
            /\ ~FileOk(path) =>
                  /\ pwResult.kind = "error"
                  /\ pwResult.password = Unset
                  /\ pwResult.error.sources = <<name>>
                  /\ pwResult.error.path = Core(path)

\* C20 witness: a group- and world-readable file on POSIX was refused
C20_Witness ==
    /\ ConfiguredSet = {"--password-file"}
    /\ pwInput.platform = "linux"
    /\ pwInput.file.kind = "file"
    /\ pwInput.file.mode = 33188
    /\ pwInput.file.content = <<"f">>
    /\ pwResult.kind = "error"
    /\ pwResult.error.kind = "insecure-permissions"
    /\ pwResult.error.path = <<"p">>

----------------------------------------------------------------------------
(* Password resolution: the returned secret *)

EndsInNewline(s) == s # <<>> /\ s[Len(s)] \in {"\r", "\n"}

\* the secret the source named by the result holds
ConfiguredSecret ==
    IF pwResult.source = "env" THEN pwInput.envPassword ELSE pwInput.file.content

\* C21 as stated: every returned password, from the env source or a file
\* source, is the configured secret with its trailing CR/LF run stripped,
\* and never ends in CR or LF.
C21_ReturnedPasswordStripped ==
    pwResult.kind = "password" =>
        /\ pwResult.password = SecretOf(ConfiguredSecret)
        /\ ~EndsInNewline(pwResult.password)

\* C21 as amended: a password returned from a file source is the file's
\* content with its trailing CR/LF run stripped (leading and interior
\* characters untouched) and never ends in CR or LF; a password returned
\* from the env source is the variable's value unchanged, trailing CR/LF
\* included.
C21_FilePasswordStripped ==
    pwResult.kind = "password" =>
        IF pwResult.source = "file"
        THEN /\ pwResult.password = SecretOf(pwInput.file.content)
             /\ ~EndsInNewline(pwResult.password)
        ELSE pwResult.password = pwInput.envPassword

\* C21 witness: the override's file ends in CR and the password does not
C21_Witness ==
    /\ ConfiguredSet = {"--password-file"}
    /\ pwInput.file.content = <<"f", "\r">>
    /\ pwResult.kind = "password"
    /\ pwResult.password = <<"f">>

\* C22: resolution never partially succeeds: when the single configured
\* source is a file that is unusable (missing or unreadable path, symlink,
\* non-regular file, insecure mode, blank content) it throws an error about
\* that source; it returns neither a password nor null and does not report
\* the password as missing, also when requirePassword is false.
C22_UnusableSourceThrows ==
    LET path == IF ExplicitSet THEN pwInput.options.explicitPasswordFile
                ELSE pwInput.envPasswordFile
        name == IF ExplicitSet THEN "--password-file" ELSE "JACS_PASSWORD_FILE"
    IN  (/\ Resolved
         /\ Cardinality(ConfiguredSet) = 1
         /\ ~EnvSet
         /\ ~FileOk(path)) =>
            /\ pwResult.kind = "error"
            /\ pwResult.error.kind \notin {"missing", "none"}
            /\ Range(pwResult.error.sources) = {name}
            /\ pwResult.source = Undefined

\* C22 witness: the path variable names a symlink and no password is required
C22_Witness ==
    /\ ConfiguredSet = {"JACS_PASSWORD_FILE"}
    /\ pwInput.options.requirePassword = "false"
    /\ pwInput.file.kind = "symlink"
    /\ pwResult.kind = "error"
    /\ pwResult.error.kind = "symlink"

----------------------------------------------------------------------------
(* Claims about setupCommand *)

SetupRan == setup.outcome # "none"

\* the password sources configured when setupCommand was called
SetupConfiguredSet ==
    (IF setup.args.passwordFile # Unset THEN {"--password-file"} ELSE {})
    \cup (IF setup.envAtStart # Unset THEN {"JACS_PRIVATE_KEY_PASSWORD"} ELSE {})
    \cup (IF pwInput.envPasswordFile # Unset THEN {"JACS_PASSWORD_FILE"} ELSE {})

\* no directory or agent created, no agent instance registered, plugin
\* config not updated
SetupNoEffects ==
    /\ ~setup.directories
    /\ ~setup.agentCreated
    /\ ~setup.instance
    /\ ~setup.configUpdated
    /\ agentId = Undefined
    /\ agentDomain = Undefined

C27_PasswordEnvRestored ==
    SetupRan => pwInput.envPassword = setup.envAtStart

----------------------------------------------------------------------------
(* Claims about concurrent claim-set operations *)

\* C25: with claim-set operations in progress at the same time, no
\* operation's write lowers the persisted claim: the claim a write replaces
\* never ranks above the claim written.
C25_ConcurrentWritesNeverRegress ==
    \A p \in ProcIds :
        procs[p].outcome = "updated" =>
            Rank(procs[p].claim) >= Rank(procs[p].overwrote)

----------------------------------------------------------------------------
(* Claims about jacs_verify_auto *)

VerifiedAuto == site.op = "jacs_verify_auto" /\ site.outcome = "reported"

\* the TXT record publishes a hash, and it is the hash of the fetched key or
\* the hash the well-known response gives for it
DnsHashMatchesKey ==
    LET dnsHash == parseDnsTxt(site.dnsAnswer).publicKeyHash
    IN  /\ site.dnsAnswer.kind = "txt"
        /\ dnsHash # Undefined
        /\ dnsHash \in {hashString(site.keyAnswer.key), site.keyAnswer.publicKeyHash}

\* C26: jacs_verify_auto with requiredTrustLevel L returns a result, not an
\* error, only if the trust level it computed is at least L; for L = attested
\* only if the registry reported the agent registered; for L = domain only if
\* the hash of the DNS record matched the fetched key; and `valid` is true only
\* if the signature verified and the required level is met.
C26_RequiredLevelIsEarned ==
    (VerifiedAuto /\ site.request.requiredTrustLevel # Undefined) =>
        /\ TrustRank(site.trustLevel) >= TrustRank(site.request.requiredTrustLevel)
        /\ site.request.requiredTrustLevel = "attested" => site.haiAnswer = "registered"
        /\ site.request.requiredTrustLevel = "domain" => DnsHashMatchesKey
        /\ site.valid => site.verifyAnswer = "valid"

\* C29: whenever the DNS check of jacs_verify_auto reports a dnsError (record
\* not found, hash mismatch, agent ID of the record differing from the
\* signer), dnsVerified is false, and the level `domain` is not given.
C29_DnsErrorMeansUnverified ==
    (site.op = "jacs_verify_auto" /\ site.dnsError # Undefined) =>
        /\ ~site.dnsVerified
        /\ site.trustLevel # "domain"

----------------------------------------------------------------------------
(* Claims about the public-key cache *)

\* the cache entry a domain is looked up under
EntryFor(domain) == pubkeyCache[toLowerCase(domain)]

\* the entry exists and is less than five minutes old
Young(entry) == entry.present /\ now - entry.fetchedAt < CACHE_TTL_MS

\* fetchPublicKey returned in this step
FetchReturned == cacheOp' # cacheOp /\ cacheOp'.op = "fetchPublicKey"

\* fetchPublicKey sent its request in this step
FetchStarted == pending' # pending /\ pending'.op = "fetchPublicKey"

\* C28: fetchPublicKey answers from the cache (cached: true, no request)
\* exactly when skipCache is false and the entry of the lower-cased domain
\* is younger than the TTL, and otherwise sends the request; only a response
\* that is ok and has a publicKey writes the cache, under the lower-cased
\* domain; any other response returns an error and leaves the cache as it was.
C28_CacheDiscipline ==
    [][/\ (FetchReturned /\ cacheOp'.cached) =>
              /\ ~cacheOp'.skipCache
              /\ Young(EntryFor(cacheOp'.domain))
              /\ cacheOp'.data = EntryFor(cacheOp'.domain)
              /\ pending' = pending
              /\ pubkeyCache' = pubkeyCache
       /\ FetchStarted =>
              /\ pending'.skipCache \/ ~Young(EntryFor(pending'.domain))
              /\ pubkeyCache' = pubkeyCache
       /\ (FetchReturned /\ ~cacheOp'.cached) =>
              IF /\ cacheOp'.answer.kind = "json"
                 /\ cacheOp'.answer.publicKey \notin {Undefined, ""}
              THEN /\ cacheOp'.outcome = "fetched"
                   /\ \A k \in CacheKeys :
                        IF k = toLowerCase(cacheOp'.domain)
                        THEN /\ pubkeyCache'[k].present
                             /\ pubkeyCache'[k].key = cacheOp'.answer.publicKey
                             /\ pubkeyCache'[k].fetchedAt = now
                        ELSE pubkeyCache'[k] = pubkeyCache[k]
              ELSE /\ cacheOp'.outcome = "error"
                   /\ pubkeyCache' = pubkeyCache]_vars

\* C28 witness: a lookup of Agent.Example is answered from the entry of
\* agent.example, fetched one tick earlier
C28_Witness ==
    /\ cacheOp.op = "fetchPublicKey"
    /\ cacheOp.cached
    /\ cacheOp.domain = "Agent.Example"
    /\ cacheOp.data = pubkeyCache["agent.example"]
    /\ now - cacheOp.data.fetchedAt = TickMs

\* C30: the cache entry a fetch has just written has the agentId and the
\* publicKeyHash of the well-known response it was written from, whichever
\* operation wrote it.
C30_EntryKeepsIdentity ==
    cacheOp.outcome = "fetched" =>
        /\ EntryFor(cacheOp.domain).present
        /\ EntryFor(cacheOp.domain).agentId = cacheOp.answer.agentId
        /\ EntryFor(cacheOp.domain).publicKeyHash = cacheOp.answer.publicKeyHash

====
